---------------------------- MODULE Spec2Model ----------------------------
(***************************************************************************)
(* Model of the room-scoped realtime messaging core of ChannelChat:        *)
(*   - ConnectionManager (ws_connection_manager.py): rooms, user_room_map, *)
(*     presence_cache, connect / switch_room / disconnect / broadcast /    *)
(*     update_presence / broadcast_presence;                               *)
(*   - websocket_endpoint and its handlers (ws_routes.py).                 *)
(*                                                                         *)
(* The program runs on one asyncio event loop: code between two await      *)
(* points that really suspend runs atomically, so every action below is    *)
(* one such segment.  `await coro()` suspends only if something inside     *)
(* suspends; ConnectionManager.broadcast suspends (asyncio.gather) exactly *)
(* when it has at least one connection to send to.                         *)
(***************************************************************************)
EXTENDS Integers, Sequences, FiniteSets, TLC

(***************************************************************************)
(* Bounds of the model.                                                    *)
(***************************************************************************)
NumUsers == 2
ExtraDevices == 1
NumRooms == 2
MaxCalls == 4
MaxMsgs == 2
\* time.time() runs from 0 to MaxTime seconds
MaxTime == 3
\* datetime.utcnow() runs from 0 to MaxDays days
MaxDays == 8
\* maxsize of the lru_cache of _get_encryption_suite (1000 in the source),
\* scaled to the number of rooms so that entries are evicted
LruMaxSize == 1
NumSecrets == 1
NumNonces == 2
\* stored messages, distinct timestamps and largest page size of a paging client
NumStored == 3
MaxStamp == 2
MaxLimit == 2
\* HTTP requests to the room and invite routes
MaxReqs == 3

(***************************************************************************)
(* Program constants.                                                      *)
(***************************************************************************)
presence_cache_ttl == 2

Users == 1..NumUsers
\* One websocket per user plus ExtraDevices further devices, so that some
\* user always holds several connections.
Sockets == 1..(NumUsers + ExtraDevices)
SockUser(w) == IF w <= NumUsers THEN w ELSE ((w - NumUsers - 1) % NumUsers) + 1
RoomIds == 1..NumRooms
\* self.UNASSIGNED = "unassigned"
UNASSIGNED == 0
\* Python None for an optional room_id / an absent task
None == -1

VARIABLES
    rooms,            \* ConnectionManager.rooms: room -> (user -> UserConnection)
    user_room_map,    \* ConnectionManager.user_room_map: user -> room
    presence_cache,   \* ConnectionManager.presence_cache: room -> [message, timestamp]
    now,              \* time.time(), in seconds
    sockState,        \* per websocket: "new" | "open" | "closing" (between the awaits of handle_disconnect) | "closed"
    sockRoom,         \* per websocket: the room_id of its endpoint call
    pend,             \* per websocket: [old, new] of a switch_room call suspended at its first await, or None
    wire,             \* the broadcasts issued by the step just taken, in the order of their sends
    bq,               \* event-loop queue of broadcast tasks made by asyncio.create_task, oldest first
    calls,            \* number of API calls / client events issued so far
    tasks,            \* the handle_new_message background tasks, in the order their events were received
    store,            \* the messages collection: _id -> document
    insertLog,        \* the _ids in the order insert_one stored them
    hnd,              \* per websocket: the edit/delete handler its receive loop is awaiting
    sentLog,          \* the ids of the new messages in the order their broadcasts were sent
    ev,               \* the client event, manager call or push notification run that the
                      \* step just taken handled, or NoEvent
    receiptLog,       \* the read_receipt broadcasts sent so far: [read_by, message_ids], oldest first
    master_key,       \* KeyManagement.master_key, None before KeyManagement is constructed
    environ,          \* os.environ["MASTER_KEY"]
    room_keys,        \* KeyManagement._room_keys: room -> [key, creation_time]
    suites,           \* the lru_cache of _get_encryption_suite: [room_id, key], least recently used first
    utcnow,           \* datetime.utcnow(), in days
    issued,           \* the ciphertexts encrypt_message has returned, each with the text and day it was made for
    members,          \* the rooms collection: room _id -> its "members" array, as the list of the user_ids
    room_invites,     \* the room_invites collection: _id -> [user_id, room_id, status]
    req,              \* the HTTP requests received so far, each with the point its handler has reached
    hist              \* a client paging through get_messages: [room_id, limit, cursor, pages, done]

msgVars == <<tasks, store, insertLog, hnd>>
cryptoVars == <<master_key, environ, room_keys, suites, utcnow, issued>>
appVars == <<members, room_invites, req, hist>>
vars == <<rooms, user_room_map, presence_cache, now, sockState, sockRoom, pend, wire, bq, calls,
          tasks, store, insertLog, hnd, sentLog, ev, receiptLog,
          master_key, environ, room_keys, suites, utcnow, issued,
          members, room_invites, req, hist>>

(***************************************************************************)
(* Finite maps (Python dicts).                                             *)
(***************************************************************************)
NoEntries == [k \in {} |-> 0]
Put(f, k, v) == [x \in DOMAIN f \cup {k} |-> IF x = k THEN v ELSE f[x]]
Del(f, k) == [x \in DOMAIN f \ {k} |-> f[x]]
\* rooms is a defaultdict(dict): reading self.rooms[r] creates an empty entry
Touch(rm, r) == IF r \in DOMAIN rm THEN rm ELSE Put(rm, r, NoEntries)

UserConnection(st, cs) == [status |-> st, connections |-> cs]

Manager == [rooms |-> rooms, user_room_map |-> user_room_map,
            presence_cache |-> presence_cache]
\* result of a manager call: new manager state, the broadcasts it issued,
\* and whether the call's last broadcast suspended the caller
Res(m, out) == [m |-> m, out |-> out]

(***************************************************************************)
(* ConnectionManager                                                       *)
(***************************************************************************)
\* an invalidation that leaves the cache entry in place
invalidate_presence_cache_kept(m, r) == m

invalidate_presence_cache(m, r) ==
    [m EXCEPT !.presence_cache = Del(@, r)]

\* a broadcast() loop without the exclude_user_id test
Recipients_everyone(rm, r, exclude) ==
    IF r \notin DOMAIN rm THEN {}
    ELSE UNION { rm[r][u].connections : u \in DOMAIN rm[r] }

\* the connections broadcast() sends to
Recipients(rm, r, exclude) ==
    IF r \notin DOMAIN rm THEN {}
    ELSE UNION { rm[r][u].connections : u \in DOMAIN rm[r] \ {exclude} }

\* One broadcast: message serialized once, one send_text per connection in `to`.
broadcast(m, message, r, exclude) ==
    IF r \notin DOMAIN m.rooms THEN <<>>
    ELSE <<[msg |-> message, room |-> r, exclude |-> exclude,
            to |-> Recipients(m.rooms, r, exclude)]>>

PresenceData(rm, r) == [u \in DOMAIN rm[r] |-> rm[r][u].status]

broadcast_presence(m, r) ==
    IF r \notin DOMAIN m.rooms THEN Res(m, <<>>)
    ELSE IF r \in DOMAIN m.presence_cache
            /\ now - m.presence_cache[r].timestamp < presence_cache_ttl
         THEN Res(m, broadcast(m, m.presence_cache[r].message, r, None))
         ELSE LET pm == [type |-> "presence", presence |-> PresenceData(m.rooms, r)]
                  m2 == [m EXCEPT !.presence_cache =
                            Put(@, r, [message |-> pm, timestamp |-> now])]
              IN Res(m2, broadcast(m2, pm, r, None))

\* does awaiting a call that issued these broadcasts suspend the caller?
Suspends(out) == \E i \in 1..Len(out) : out[i].to # {}

\* a connect that stores {websocket} instead of adding it to the user's set
connect_overwrite(m, w, u, room_id) ==
    LET target == IF room_id = None THEN UNASSIGNED ELSE room_id
        rm1 == [Touch(m.rooms, target) EXCEPT ![target] = Put(@, u, UserConnection("active", {w}))]
        m1 == [m EXCEPT !.rooms = rm1]
    IN IF room_id # None
       THEN broadcast_presence(
                invalidate_presence_cache(
                    [m1 EXCEPT !.user_room_map = Put(@, u, room_id)], room_id),
                room_id)
       ELSE Res(m1, <<>>)

connect(m, w, u, room_id) ==
    LET target == IF room_id = None THEN UNASSIGNED ELSE room_id
        rm0 == Touch(m.rooms, target)
        conns == IF u \in DOMAIN rm0[target]
                 THEN rm0[target][u].connections \cup {w} ELSE {w}
        rm1 == [rm0 EXCEPT ![target] = Put(@, u, UserConnection("active", conns))]
        m1 == [m EXCEPT !.rooms = rm1]
    IN IF room_id # None
       THEN broadcast_presence(
                invalidate_presence_cache(
                    [m1 EXCEPT !.user_room_map = Put(@, u, room_id)], room_id),
                room_id)
       ELSE Res(m1, <<>>)

\* a removal that keeps the user's entry when its last connection goes
RemoveConn_keep(rm, w, u, r) ==
    [rm EXCEPT ![r][u].connections = @ \ {w}]

\* removal of w from user u's entry in room r (shared shape of
\* switch_room's and disconnect's removal half), without map cleanup
RemoveConn(rm, w, u, r) ==
    LET remaining == rm[r][u].connections \ {w}
    IN IF remaining # {}
       THEN [rm EXCEPT ![r][u].connections = remaining]
       ELSE LET rm1 == [rm EXCEPT ![r] = Del(@, u)]
            IN IF DOMAIN rm1[r] = {} /\ r # UNASSIGNED THEN Del(rm1, r) ELSE rm1

OldRoom(m, u) ==
    IF u \in DOMAIN m.user_room_map THEN m.user_room_map[u] ELSE UNASSIGNED

\* switch_room up to and including `await self.broadcast_presence(old_room_id)`
switch_room_old(m, w, u, new_room_id) ==
    LET old == OldRoom(m, u)
        rm0 == Touch(m.rooms, old)
        m0 == [m EXCEPT !.rooms = rm0]
    IN IF u \in DOMAIN rm0[old] /\ w \in rm0[old][u].connections
       THEN LET m1 == [m0 EXCEPT !.rooms = RemoveConn(rm0, w, u, old)]
            IN IF old # UNASSIGNED
               THEN broadcast_presence(invalidate_presence_cache(m1, old), old)
               ELSE Res(m1, <<>>)
       ELSE Res(m0, <<>>)

\* switch_room from "Handle new room" to its end
switch_room_new(m, w, u, new_room_id) ==
    LET rm0 == Touch(m.rooms, new_room_id)
        conns == IF u \in DOMAIN rm0[new_room_id]
                 THEN rm0[new_room_id][u].connections \cup {w} ELSE {w}
        rm1 == [rm0 EXCEPT ![new_room_id] = Put(@, u, UserConnection("active", conns))]
        m1 == [m EXCEPT !.rooms = rm1,
                        !.user_room_map = Put(@, u, new_room_id)]
    IN broadcast_presence(invalidate_presence_cache(m1, new_room_id), new_room_id)

\* "Skip if already in the target room"
switch_room_skips(m, u, new_room_id) == OldRoom(m, u) = new_room_id

disconnect(m, w, u, room_id) ==
    LET actual == IF room_id # None THEN room_id ELSE OldRoom(m, u)
        rm0 == Touch(m.rooms, actual)
        m0 == [m EXCEPT !.rooms = rm0]
    IN IF u \in DOMAIN rm0[actual] /\ w \in rm0[actual][u].connections
       THEN LET last == rm0[actual][u].connections \ {w} = {}
                urm == IF last /\ u \in DOMAIN m.user_room_map
                          /\ m.user_room_map[u] = actual
                       THEN Del(m.user_room_map, u) ELSE m.user_room_map
                m1 == [m0 EXCEPT !.rooms = RemoveConn(rm0, w, u, actual),
                                 !.user_room_map = urm]
            IN IF actual # UNASSIGNED
               THEN broadcast_presence(invalidate_presence_cache(m1, actual), actual)
               ELSE Res(m1, <<>>)
       ELSE Res(m0, <<>>)

\* an update_presence without its "User not in this room" return
update_presence_unguarded(m, u, r, status) ==
    LET rm0 == Touch(m.rooms, r)
        conns == IF u \in DOMAIN rm0[r] THEN rm0[r][u].connections ELSE {}
        m1 == [m EXCEPT !.rooms = [rm0 EXCEPT ![r] = Put(@, u, UserConnection(status, conns))]]
    IN broadcast_presence(invalidate_presence_cache(m1, r), r)

update_presence(m, u, r, status) ==
    IF r \notin DOMAIN m.rooms \/ u \notin DOMAIN m.rooms[r] THEN Res(m, <<>>)
    ELSE LET m1 == [m EXCEPT !.rooms[r][u].status = status]
         IN broadcast_presence(invalidate_presence_cache(m1, r), r)

get_active_users(m, r) ==
    IF r \notin DOMAIN m.rooms THEN {}
    ELSE {u \in DOMAIN m.rooms[r] : m.rooms[r][u].status = "active"}

(***************************************************************************)
(* Message content.  A content value is a text together with the layers    *)
(* the pipeline has put around it: z = zstd-compressed and base64-encoded, *)
(* e = AES-GCM encrypted (under the key derived for room `key`, with that  *)
(* room id as associated data and nonce `nonce`) and base64-encoded.  The  *)
(* pipeline compresses before it encrypts, so z is always the inner layer. *)
(***************************************************************************)
Texts == {"", "hello", "bye", "a*500", "rnd*100"}
Length(t) ==
    CASE t = "" -> 0
      [] t = "hello" -> 5
      [] t = "bye" -> 3
      [] t = "a*500" -> 500
      [] t = "rnd*100" -> 100
      [] t = "a*99" -> 99
      [] t = "a*100" -> 100
      [] t = "\\ud83d*100" -> 100
      [] t = "x*10241" -> 10241
      [] OTHER -> 20
\* len(b64encode(zstd.compress(t))) < len(t): true of the repetitive texts only
Shrinks(t) == t \in {"a*500", "a*100"}

MinCompressLen == 100

\* can str.encode("utf-8") encode the text?  Lone surrogates are not allowed.
Encodable(t) == t \notin {"\\ud83d", "\\ud83d*100"}

Plain(t) == [text |-> t, null |-> FALSE, z |-> FALSE, e |-> FALSE, key |-> None, nonce |-> None]
\* Python None as a content or nonce
NoneContent == [text |-> "", null |-> TRUE, z |-> FALSE, e |-> FALSE, key |-> None, nonce |-> None]
\* `if content` / `not content`
Truthy(c) == ~c.null /\ (c.z \/ c.e \/ c.text # "")

\* a compress_message that returns the compressed text with the flag False
compress_message_unflagged(c) ==
    IF ~Truthy(c) \/ Length(c.text) < MinCompressLen THEN <<c, FALSE>>
    ELSE <<[c EXCEPT !.z = TRUE], FALSE>>

\* MessageCompression.compress_message: <<content, is_compressed>>
compress_message(c) ==
    IF ~Truthy(c) \/ Length(c.text) < MinCompressLen THEN <<c, FALSE>>
    \* content.encode raises inside the try: `except Exception` returns content, False
    ELSE IF ~Encodable(c.text) THEN <<c, FALSE>>
    ELSE IF Shrinks(c.text) THEN <<[c EXCEPT !.z = TRUE], TRUE>>
    ELSE <<c, FALSE>>

\* a decompress_message that returns its input as it is
decompress_message_skipped(c, is_compressed) == c

\* MessageCompression.decompress_message
decompress_message(c, is_compressed) ==
    IF ~is_compressed \/ ~Truthy(c) THEN c
    ELSE IF c.z /\ ~c.e THEN [c EXCEPT !.z = FALSE]
    ELSE Plain("[Decompression failed]")

\* MessageEncryption.encrypt_message with the nonce os.urandom(12) returned n:
\* the ciphertext; the returned nonce is n
encrypt_message(c, room_id, n) ==
    [c EXCEPT !.e = TRUE, !.key = room_id, !.nonce = n]

\* MessageEncryption.decrypt_message: [ok, val]; ~ok is a raised exception
\* (tag mismatch under another room's key or associated data, another
\* nonce, or input that is no ciphertext)
decrypt_message(c, nonce, room_id) ==
    IF ~c.null /\ c.e /\ c.key = room_id /\ c.nonce = nonce
    THEN [ok |-> TRUE, val |-> [c EXCEPT !.e = FALSE, !.key = None, !.nonce = None]]
    ELSE [ok |-> FALSE, val |-> NoneContent]

\* a process_message_batch that keeps the stored content of a record whose
\* decryption raised
process_message_batch_passing(msg, room_id) ==
    IF msg.message_type = "image" THEN msg.content
    ELSE LET dec == IF msg.encrypted /\ Truthy(msg.content) /\ msg.nonce # None
                    THEN decrypt_message(msg.content, msg.nonce, room_id)
                    ELSE [ok |-> TRUE, val |-> msg.content]
         IN IF ~dec.ok THEN msg.content
            ELSE IF msg.compressed THEN decompress_message(dec.val, TRUE)
            ELSE dec.val

\* MessageCompression.process_message_batch, for one record: its content
\* as returned to the client by get_messages
process_message_batch(msg, room_id) ==
    IF msg.message_type = "image" THEN msg.content
    ELSE LET dec == IF msg.encrypted /\ Truthy(msg.content) /\ msg.nonce # None
                    THEN decrypt_message(msg.content, msg.nonce, room_id)
                    ELSE [ok |-> TRUE, val |-> msg.content]
         IN IF ~dec.ok THEN Plain("[Processing failed]")
            ELSE IF msg.compressed THEN decompress_message(dec.val, TRUE)
            ELSE dec.val

\* the receive loop of a websocket is not inside an edit or delete handler
Idle == [op |-> "idle", pc |-> "idle", mid |-> None, content |-> NoneContent, seq |-> None]

\* a text frame read by `await websocket.receive_text()`
Event(w, type, mid) == [w |-> w, type |-> type, mid |-> mid]
NoEvent == Event(None, "none", None)
\* a call of a ConnectionManager method with its user_id and room_id arguments
Call(w, type, u, r) == [w |-> w, type |-> type, mid |-> None, user_id |-> u, room_id |-> r]

\* a gather without return_exceptions: the first failing send_text raises
\* out of broadcast()
Deliver_raising(out, ss) ==
    [i \in 1..Len(out) |->
        [msg |-> out[i].msg, room |-> out[i].room, exclude |-> out[i].exclude,
         to |-> out[i].to, ok |-> {w \in out[i].to : ss[w] = "open"},
         raised |-> \E w \in out[i].to : ss[w] # "open"]]

\* The sends of a broadcast run when the caller suspends in asyncio.gather:
\* send_text reaches the sockets that are open then (ok); on the others it
\* raises and gather(return_exceptions=True) collects the exception.
\* ss is the state of the sockets once this step is taken.
\* raised: does the gather, and with it broadcast(), raise to its caller?
Deliver(out, ss) ==
    [i \in 1..Len(out) |->
        [msg |-> out[i].msg, room |-> out[i].room, exclude |-> out[i].exclude,
         to |-> out[i].to, ok |-> {w \in out[i].to : ss[w] = "open"},
         raised |-> FALSE]]

\* install a manager call's result
Apply(res, ss) ==
    /\ rooms' = res.m.rooms
    /\ user_room_map' = res.m.user_room_map
    /\ presence_cache' = res.m.presence_cache
    /\ sockState' = ss
    /\ wire' = Deliver(res.out, ss)

NoSwitch == [old |-> None, new |-> None]
\* no get_messages request made yet
NoPaging == [room_id |-> None, limit |-> 0, cursor |-> <<>>, pages |-> <<>>, done |-> FALSE]

(***************************************************************************)
(* Initial state: ConnectionManager.__init__, no websocket accepted yet.   *)
(***************************************************************************)
\* the key manager of the running server: dependencies.py constructs
\* MessageEncryption() at import, with MASTER_KEY holding the secret k
KeysConstructed(k) ==
    /\ master_key = k
    /\ environ = k
    /\ room_keys = NoEntries
    /\ suites = <<>>
    /\ utcnow = 0
    /\ issued = {}

\* no room created, no invite sent, no HTTP request received
AppIdle ==
    /\ members = NoEntries
    /\ room_invites = NoEntries
    /\ req = <<>>
    /\ hist = NoPaging

InitServer ==
    /\ rooms = NoEntries
    /\ user_room_map = NoEntries
    /\ presence_cache = NoEntries
    /\ now = 0
    /\ sockState = [w \in Sockets |-> "new"]
    /\ sockRoom = [w \in Sockets |-> None]
    /\ pend = [w \in Sockets |-> NoSwitch]
    /\ wire = <<>>
    /\ bq = <<>>
    /\ calls = 0
    /\ tasks = <<>>
    /\ store = NoEntries
    /\ insertLog = <<>>
    /\ hnd = [w \in Sockets |-> Idle]
    /\ sentLog = <<>>
    /\ ev = NoEvent
    /\ receiptLog = <<>>

Init == InitServer /\ KeysConstructed(1) /\ AppIdle

(***************************************************************************)
(* SpecReg: the ConnectionManager driven through its API by concurrent     *)
(* tasks.  A websocket is registered by one connect call and stays         *)
(* registered until disconnect is called for it.                           *)
(***************************************************************************)
Connect(w, r) ==
    /\ calls < MaxCalls
    /\ sockState[w] = "new"
    /\ Apply(connect(Manager, w, SockUser(w), r), [sockState EXCEPT ![w] = "open"])
    /\ calls' = calls + 1
    /\ UNCHANGED <<now, sockRoom, pend, bq, msgVars, sentLog>>
    /\ ev' = Event(w, "connect", None)
    /\ UNCHANGED <<receiptLog, cryptoVars, appVars>>

\* switch_room called; runs to its first suspension or to its end
SwitchRoom(w, r) ==
    /\ calls < MaxCalls
    /\ sockState[w] = "open"
    /\ pend[w] = NoSwitch
    /\ calls' = calls + 1
    /\ IF switch_room_skips(Manager, SockUser(w), r)
       THEN /\ wire' = <<>>
            /\ UNCHANGED <<rooms, user_room_map, presence_cache, sockState, pend>>
       ELSE LET r1 == switch_room_old(Manager, w, SockUser(w), r)
            IN IF Suspends(r1.out)
               THEN /\ Apply(r1, sockState)
                    /\ pend' = [pend EXCEPT ![w] =
                                    [old |-> OldRoom(Manager, SockUser(w)), new |-> r]]
               ELSE LET r2 == switch_room_new(r1.m, w, SockUser(w), r)
                    IN /\ Apply(Res(r2.m, r1.out \o r2.out), sockState)
                       /\ UNCHANGED pend
    /\ UNCHANGED <<now, sockRoom, bq, msgVars, sentLog>>
    /\ ev' = Call(w, "switch_room", SockUser(w), r)
    /\ UNCHANGED <<receiptLog, cryptoVars, appVars>>

\* the suspended switch_room is resumed after broadcast_presence(old_room_id)
SwitchRoomResume(w) ==
    /\ pend[w] # NoSwitch
    /\ Apply(switch_room_new(Manager, w, SockUser(w), pend[w].new), sockState)
    /\ pend' = [pend EXCEPT ![w] = NoSwitch]
    /\ UNCHANGED <<now, sockRoom, bq, calls, msgVars, sentLog>>
    /\ ev' = Event(w, "switch_room_resume", None)
    /\ UNCHANGED <<receiptLog, cryptoVars, appVars>>

Disconnect(w, r) ==
    /\ calls < MaxCalls
    /\ sockState[w] = "open"
    /\ Apply(disconnect(Manager, w, SockUser(w), r), [sockState EXCEPT ![w] = "closed"])
    /\ calls' = calls + 1
    /\ UNCHANGED <<now, sockRoom, pend, bq, msgVars, sentLog>>
    /\ ev' = Call(w, "disconnect", SockUser(w), r)
    /\ UNCHANGED <<receiptLog, cryptoVars, appVars>>

UpdatePresence(u, r, st) ==
    /\ calls < MaxCalls
    /\ Apply(update_presence(Manager, u, r, st), sockState)
    /\ calls' = calls + 1
    /\ UNCHANGED <<now, sockRoom, pend, bq, msgVars, sentLog>>
    /\ ev' = Call(None, "update_presence", u, r)
    /\ UNCHANGED <<receiptLog, cryptoVars, appVars>>

\* manager.broadcast called directly: kind "message" is the call that
\* handle_new_message makes (no exclude_user_id), "notice" any other call
Broadcast(kind, r, exclude) ==
    /\ calls < MaxCalls
    /\ calls' = calls + 1
    /\ wire' = Deliver(broadcast(Manager, [type |-> kind], r, exclude), sockState)
    /\ ev' = Call(None, "broadcast", None, r)
    /\ UNCHANGED <<receiptLog, cryptoVars, appVars>>
    /\ UNCHANGED <<rooms, user_room_map, presence_cache, now, sockState, sockRoom, pend, bq,
                   msgVars, sentLog>>

\* disconnect called for a websocket that is not open: one that never
\* connected, or a second disconnect racing with the first
DisconnectOther(w, r) ==
    /\ calls < MaxCalls
    /\ sockState[w] # "open"
    /\ pend[w] = NoSwitch
    /\ Apply(disconnect(Manager, w, SockUser(w), r), sockState)
    /\ calls' = calls + 1
    /\ ev' = Call(w, "disconnect", SockUser(w), r)
    /\ UNCHANGED <<now, sockRoom, pend, bq, msgVars, sentLog, receiptLog, cryptoVars, appVars>>

\* broadcast_presence called directly
BroadcastPresence(r) ==
    /\ calls < MaxCalls
    /\ Apply(broadcast_presence(Manager, r), sockState)
    /\ calls' = calls + 1
    /\ ev' = Call(None, "broadcast_presence", None, r)
    /\ UNCHANGED <<now, sockRoom, pend, bq, msgVars, sentLog, receiptLog, cryptoVars, appVars>>

\* get_active_users: reads the registry, returns a list
GetActiveUsers(r) ==
    /\ calls < MaxCalls
    /\ calls' = calls + 1
    /\ wire' = <<>>
    /\ ev' = [w |-> None, type |-> "get_active_users", mid |-> None, user_id |-> None,
              room_id |-> r, result |-> get_active_users(Manager, r)]
    /\ UNCHANGED <<rooms, user_room_map, presence_cache, now, sockState, sockRoom, pend, bq,
                   msgVars, sentLog, receiptLog, cryptoVars, appVars>>

\* a second of time.time() passes
Tick ==
    /\ now < MaxTime
    /\ now' = now + 1
    /\ wire' = <<>>
    /\ ev' = NoEvent
    /\ UNCHANGED <<rooms, user_room_map, presence_cache, sockState, sockRoom, pend, bq, calls,
                   msgVars, sentLog, receiptLog, cryptoVars, appVars>>

NextReg ==
    \/ \E w \in Sockets, r \in RoomIds \cup {None} : Connect(w, r)
    \/ \E w \in Sockets, r \in RoomIds : SwitchRoom(w, r)
    \/ \E w \in Sockets : SwitchRoomResume(w)
    \/ \E w \in Sockets, r \in RoomIds \cup {None} : Disconnect(w, r)
    \/ \E u \in Users, r \in RoomIds, st \in {"active", "offline"} : UpdatePresence(u, r, st)
    \/ \E r \in RoomIds, x \in Users \cup {None} : Broadcast("notice", r, x)
    \/ \E r \in RoomIds : Broadcast("message", r, None)
    \/ \E w \in Sockets, r \in RoomIds \cup {None} : DisconnectOther(w, r)
    \/ \E r \in RoomIds : BroadcastPresence(r)
    \/ \E r \in RoomIds : GetActiveUsers(r)
    \/ Tick

SpecReg == Init /\ [][NextReg]_vars

(***************************************************************************)
(* Spec: websocket_endpoint (ws_routes.py).  Each websocket is accepted,   *)
(* registered with manager.connect(websocket, user_id, room_id), served by *)
(* the receive loop, and leaves through handle_disconnect.                 *)
(***************************************************************************)
\* accept, token and room verified, `await manager.connect(...)`
EndpointConnect(w, r) ==
    /\ calls < MaxCalls
    /\ sockState[w] = "new"
    /\ Apply(connect(Manager, w, SockUser(w), r), [sockState EXCEPT ![w] = "open"])
    /\ sockRoom' = [sockRoom EXCEPT ![w] = r]
    /\ calls' = calls + 1
    /\ UNCHANGED <<now, pend, bq, msgVars, sentLog>>
    /\ ev' = NoEvent
    /\ UNCHANGED <<receiptLog, cryptoVars, appVars>>

\* invalid token, or user or room not found: websocket.close() and return
EndpointReject(w) ==
    /\ calls < MaxCalls
    /\ sockState[w] = "new"
    /\ sockState' = [sockState EXCEPT ![w] = "closed"]
    /\ calls' = calls + 1
    /\ wire' = <<>>
    /\ UNCHANGED <<rooms, user_room_map, presence_cache, now, sockRoom, pend, bq, msgVars, sentLog>>
    /\ ev' = NoEvent
    /\ UNCHANGED <<receiptLog, cryptoVars, appVars>>

\* data == "ping": handle_presence_ping
handle_presence_ping(w) ==
    /\ calls < MaxCalls
    /\ sockState[w] = "open"
    /\ hnd[w] = Idle
    /\ Apply(update_presence(Manager, SockUser(w), sockRoom[w], "active"), sockState)
    /\ calls' = calls + 1
    /\ UNCHANGED <<now, sockRoom, pend, bq, msgVars, sentLog>>
    /\ ev' = Event(w, "ping", None)
    /\ UNCHANGED <<receiptLog, cryptoVars, appVars>>

\* {"type": "presence_update", "status": st}: handle_presence_update
handle_presence_update(w, st) ==
    /\ calls < MaxCalls
    /\ sockState[w] = "open"
    /\ hnd[w] = Idle
    /\ Apply(update_presence(Manager, SockUser(w), sockRoom[w], st), sockState)
    /\ calls' = calls + 1
    /\ UNCHANGED <<now, sockRoom, pend, bq, msgVars, sentLog>>
    /\ ev' = Event(w, "presence_update", None)
    /\ UNCHANGED <<receiptLog, cryptoVars, appVars>>

OfflineNotice(u, r) ==
    [type |-> "presence", user_id |-> u, status |-> "offline", room_id |-> r]

\* the endpoint's exit path, entered when receive_text raises:
\* handle_disconnect up to `await manager.update_presence(..., "offline")`,
\* and on to create_task(manager.broadcast(...)) if that await does not suspend
LeaveLoop(w) ==
    /\ LET res == update_presence(Manager, SockUser(w), sockRoom[w], "offline")
       IN IF Suspends(res.out)
          THEN /\ Apply(res, [sockState EXCEPT ![w] = "closing"])
               /\ UNCHANGED bq
          ELSE /\ Apply(res, [sockState EXCEPT ![w] = "closed"])
               /\ bq' = Append(bq, [msg |-> OfflineNotice(SockUser(w), sockRoom[w]),
                                    room |-> sockRoom[w]])
    /\ UNCHANGED <<now, sockRoom, pend, msgVars, sentLog>>

\* the client closes the websocket: receive_text raises WebSocketDisconnect
handle_disconnect(w) ==
    /\ calls < MaxCalls
    /\ sockState[w] = "open"
    /\ hnd[w] = Idle
    /\ calls' = calls + 1
    /\ LeaveLoop(w)
    /\ ev' = NoEvent
    /\ UNCHANGED <<receiptLog, cryptoVars, appVars>>

\* a text frame that no handler accepts: text that is not JSON
\* (JSONDecodeError), JSON that is not an object (AttributeError on .get),
\* an unknown "type", a handler that raises (for instance ObjectId() on an
\* invalid message id): the loop prints or ignores it and continues
DroppedKinds == {"malformed_json", "not_object", "unknown_type", "invalid_id"}
DroppedEvent(w, kind) ==
    /\ calls < MaxCalls
    /\ sockState[w] = "open"
    /\ hnd[w] = Idle
    /\ calls' = calls + 1
    /\ wire' = <<>>
    /\ ev' = Event(w, kind, None)
    /\ UNCHANGED <<receiptLog, cryptoVars, appVars>>
    /\ UNCHANGED <<rooms, user_room_map, presence_cache, now, sockState, sockRoom, pend, bq,
                   msgVars, sentLog>>

\* a binary frame: receive_text reads message["text"], outside the loop's
\* try.  The ASGI server either omits the key (KeyError: the endpoint's
\* outer handler runs handle_disconnect and the endpoint returns) or sets
\* it to None (json.loads(None) raises TypeError inside the try: dropped).
BinaryFrame(w) ==
    /\ calls < MaxCalls
    /\ sockState[w] = "open"
    /\ hnd[w] = Idle
    /\ calls' = calls + 1
    /\ ev' = Event(w, "binary_frame", None)
    /\ UNCHANGED <<receiptLog, cryptoVars, appVars>>
    /\ \/ LeaveLoop(w)
       \/ /\ wire' = <<>>
          /\ UNCHANGED <<rooms, user_room_map, presence_cache, now, sockState, sockRoom,
                         pend, bq, msgVars, sentLog>>

\* handle_disconnect resumed: create_task(manager.broadcast(offline notice)); the endpoint returns
handle_disconnect_resume(w) ==
    /\ sockState[w] = "closing"
    /\ sockState' = [sockState EXCEPT ![w] = "closed"]
    /\ bq' = Append(bq, [msg |-> OfflineNotice(SockUser(w), sockRoom[w]),
                         room |-> sockRoom[w]])
    /\ wire' = <<>>
    /\ UNCHANGED <<rooms, user_room_map, presence_cache, now, sockRoom, pend, calls, msgVars, sentLog>>
    /\ ev' = NoEvent
    /\ UNCHANGED <<receiptLog, cryptoVars, appVars>>

\* the event loop starts the oldest broadcast task
RunBroadcast ==
    /\ bq # <<>>
    /\ wire' = Deliver(broadcast(Manager, Head(bq).msg, Head(bq).room, None), sockState)
    /\ bq' = Tail(bq)
    /\ sentLog' = IF Head(bq).msg.type = "message" /\ Head(bq).room \in DOMAIN rooms
                  THEN Append(sentLog, Head(bq).msg.id) ELSE sentLog
    /\ UNCHANGED <<rooms, user_room_map, presence_cache, now, sockState, sockRoom, pend, calls, msgVars>>
    /\ ev' = NoEvent
    /\ UNCHANGED <<receiptLog, cryptoVars, appVars>>

Next ==
    \/ \E w \in Sockets, r \in RoomIds : EndpointConnect(w, r)
    \/ \E w \in Sockets : EndpointReject(w)
    \/ \E w \in Sockets : handle_presence_ping(w)
    \/ \E w \in Sockets, st \in {"active", "offline"} : handle_presence_update(w, st)
    \/ \E w \in Sockets : handle_disconnect(w)
    \/ \E w \in Sockets : handle_disconnect_resume(w)
    \/ \E w \in Sockets, k \in DroppedKinds : DroppedEvent(w, k)
    \/ \E w \in Sockets : BinaryFrame(w)
    \/ RunBroadcast

Spec == Init /\ [][Next]_vars

(***************************************************************************)
(* SpecMsg: websocket_endpoint with the message pipeline: new messages     *)
(* (background tasks), edit_message and delete_message (awaited by the     *)
(* receive loop).                                                          *)
(***************************************************************************)
\* the `data` of a "message" event
MessageData ==
    { [content |-> Plain(t), message_type |-> "text", reply_to |-> FALSE] : t \in Texts \ {"bye"} }
    \cup { [content |-> Plain(""), message_type |-> "text", reply_to |-> TRUE],
           [content |-> Plain("hello"), message_type |-> "image", reply_to |-> FALSE] }

\* {"type": "message", ...}: asyncio.create_task(handle_new_message(...))
NewMessage(w, data) ==
    /\ calls < MaxCalls
    /\ Len(tasks) < MaxMsgs
    /\ sockState[w] = "open"
    /\ hnd[w] = Idle
    /\ tasks' = Append(tasks, [w |-> w, data |-> data, seq |-> calls + 1, pc |-> "start",
                               encrypted_content |-> NoneContent, nonce |-> None,
                               is_compressed |-> FALSE])
    /\ calls' = calls + 1
    /\ wire' = <<>>
    /\ UNCHANGED <<rooms, user_room_map, presence_cache, now, sockState, sockRoom, pend, bq, store, insertLog, hnd, sentLog>>
    /\ ev' = Event(w, "message", None)
    /\ UNCHANGED <<receiptLog, cryptoVars, appVars>>

\* handle_new_message up to the point where encrypted_content, nonce and
\* is_compressed are known: [ok, encrypted_content, nonce, encrypted, is_compressed]
\* (~ok: an exception, caught by the handler, which returns None)
PrepareMessage(data, room_id, n) ==
    \* `if 'content' not in data: raise ValueError(...)`
    IF "content" \notin DOMAIN data
    THEN [ok |-> FALSE, encrypted_content |-> NoneContent, nonce |-> None,
          encrypted |-> FALSE, is_compressed |-> FALSE]
    ELSE
    LET comp == IF data.message_type = "text" /\ Length(data.content.text) >= MinCompressLen
                THEN compress_message(data.content)
                ELSE <<data.content, FALSE>>
        content_to_store == comp[1]
    IN IF data.message_type = "image"
       THEN [ok |-> TRUE, encrypted_content |-> content_to_store, nonce |-> None,
             encrypted |-> FALSE, is_compressed |-> comp[2]]
       ELSE IF Truthy(content_to_store)
            THEN [ok |-> TRUE, encrypted_content |-> encrypt_message(content_to_store, room_id, n),
                  nonce |-> n, encrypted |-> TRUE, is_compressed |-> comp[2]]
            ELSE IF data.reply_to
                 THEN [ok |-> TRUE, encrypted_content |-> NoneContent, nonce |-> None,
                       encrypted |-> TRUE, is_compressed |-> comp[2]]
                 \* results[0] of an empty gather: IndexError
                 ELSE [ok |-> FALSE, encrypted_content |-> NoneContent, nonce |-> None,
                       encrypted |-> TRUE, is_compressed |-> comp[2]]

\* "Create the message document": read_by starts as the list holding the
\* author; the document has no reactions field yet
NewDocument(p, user_id, room_id, message_type) ==
    [content |-> p.encrypted_content, nonce |-> p.nonce,
     user_id |-> user_id, room_id |-> room_id,
     encrypted |-> p.encrypted, compressed |-> p.is_compressed,
     message_type |-> message_type, edited |-> FALSE,
     read_by |-> <<user_id>>, reactions |-> NoEntries]

\* handle_new_message from its start to the insert_one taking effect
NewMessagePersist(i) ==
    /\ tasks[i].pc = "start"
    /\ LET t == tasks[i]
           room_id == sockRoom[t.w]
           p == PrepareMessage(t.data, room_id, t.seq)
       IN IF p.ok
          THEN /\ store' = Put(store, i,
                               NewDocument(p, SockUser(t.w), room_id, t.data.message_type))
               /\ insertLog' = Append(insertLog, i)
               /\ tasks' = [tasks EXCEPT ![i].pc = "inserted",
                                         ![i].encrypted_content = p.encrypted_content,
                                         ![i].nonce = p.nonce,
                                         ![i].is_compressed = p.is_compressed]
          ELSE /\ tasks' = [tasks EXCEPT ![i].pc = "failed"]
               /\ UNCHANGED <<store, insertLog>>
    /\ wire' = <<>>
    /\ UNCHANGED <<rooms, user_room_map, presence_cache, now, sockState, sockRoom, pend, bq, calls, hnd, sentLog>>
    /\ ev' = NoEvent
    /\ UNCHANGED <<receiptLog, cryptoVars, appVars>>

\* "Process content for broadcasting": [ok, val]
EchoContent(t, room_id) ==
    IF t.data.message_type = "image" THEN [ok |-> TRUE, val |-> t.encrypted_content]
    ELSE IF ~Truthy(t.encrypted_content) THEN [ok |-> TRUE, val |-> Plain("")]
    ELSE LET dec == decrypt_message(t.encrypted_content, t.nonce, room_id)
         IN IF ~dec.ok THEN dec
            ELSE IF t.is_compressed
                 THEN [ok |-> TRUE, val |-> decompress_message(dec.val, TRUE)]
                 ELSE dec

\* handle_new_message after insert_one returned: decrypt for the echo and
\* asyncio.create_task(manager.broadcast(broadcast_message, room_id))
NewMessageEcho(i) ==
    /\ tasks[i].pc = "inserted"
    /\ LET t == tasks[i]
           room_id == sockRoom[t.w]
           d == EchoContent(t, room_id)
       IN IF d.ok
          THEN /\ bq' = Append(bq, [msg |-> [type |-> "message", id |-> i,
                                             message_type |-> t.data.message_type,
                                             content |-> d.val, room_id |-> room_id],
                                    room |-> room_id])
               /\ tasks' = [tasks EXCEPT ![i].pc = "done"]
          ELSE /\ tasks' = [tasks EXCEPT ![i].pc = "failed"]
               /\ UNCHANGED bq
    /\ wire' = <<>>
    /\ UNCHANGED <<rooms, user_room_map, presence_cache, now, sockState, sockRoom, pend, calls, store, insertLog, hnd, sentLog>>
    /\ ev' = NoEvent
    /\ UNCHANGED <<receiptLog, cryptoVars, appVars>>

\* an ownership test that lets every caller through
IsAuthor_anyone(message, user_id) == TRUE

\* the ownership test of handle_message_edit and handle_message_delete:
\* the handler returns unless the found message is the caller's
IsAuthor(message, user_id) == message.user_id = user_id

\* {"type": "edit_message", "message_id": mid, "content": text}:
\* handle_message_edit up to the ownership check on the found message
EditFind(w, mid, text) ==
    /\ calls < MaxCalls
    /\ sockState[w] = "open"
    /\ hnd[w] = Idle
    /\ calls' = calls + 1
    /\ hnd' = IF text # "" /\ mid \in DOMAIN store /\ IsAuthor(store[mid], SockUser(w))
              THEN [hnd EXCEPT ![w] = [op |-> "edit", pc |-> "found", mid |-> mid,
                                       content |-> Plain(text), seq |-> calls + 1]]
              ELSE hnd
    /\ wire' = <<>>
    /\ UNCHANGED <<rooms, user_room_map, presence_cache, now, sockState, sockRoom, pend, bq, tasks, store, insertLog, sentLog>>
    /\ ev' = Event(w, "edit_message", mid)
    /\ UNCHANGED <<receiptLog, cryptoVars, appVars>>

\* handle_message_edit: encrypt under the connection's room_id; update_one takes effect
EditUpdate(w) ==
    /\ hnd[w].op = "edit" /\ hnd[w].pc = "found"
    /\ LET h == hnd[w]
           enc == encrypt_message(h.content, sockRoom[w], h.seq)
       IN store' = IF h.mid \in DOMAIN store
                   THEN [store EXCEPT ![h.mid].content = enc,
                                      ![h.mid].nonce = h.seq,
                                      ![h.mid].edited = TRUE]
                   ELSE store
    /\ hnd' = [hnd EXCEPT ![w].pc = "written"]
    /\ wire' = <<>>
    /\ UNCHANGED <<rooms, user_room_map, presence_cache, now, sockState, sockRoom, pend, bq, calls, tasks, insertLog, sentLog>>
    /\ ev' = NoEvent
    /\ UNCHANGED <<receiptLog, cryptoVars, appVars>>

\* handle_message_edit: await manager.broadcast(message_edited); back to the loop
EditBroadcast(w) ==
    /\ hnd[w].op = "edit" /\ hnd[w].pc = "written"
    /\ wire' = Deliver(broadcast(Manager,
                    [type |-> "message_edited", id |-> hnd[w].mid, content |-> hnd[w].content],
                    sockRoom[w], None), sockState)
    /\ hnd' = [hnd EXCEPT ![w] = Idle]
    /\ UNCHANGED <<rooms, user_room_map, presence_cache, now, sockState, sockRoom, pend, bq,
                   calls, tasks, store, insertLog, sentLog>>
    /\ ev' = NoEvent
    /\ UNCHANGED <<receiptLog, cryptoVars, appVars>>

\* {"type": "delete_message", "message_id": mid}:
\* handle_message_delete up to the ownership check on the found message
DeleteFind(w, mid) ==
    /\ calls < MaxCalls
    /\ sockState[w] = "open"
    /\ hnd[w] = Idle
    /\ calls' = calls + 1
    /\ hnd' = IF mid \in DOMAIN store /\ IsAuthor(store[mid], SockUser(w))
              THEN [hnd EXCEPT ![w] = [op |-> "delete", pc |-> "found", mid |-> mid,
                                       content |-> NoneContent, seq |-> calls + 1]]
              ELSE hnd
    /\ wire' = <<>>
    /\ UNCHANGED <<rooms, user_room_map, presence_cache, now, sockState, sockRoom, pend, bq, tasks, store, insertLog, sentLog>>
    /\ ev' = Event(w, "delete_message", mid)
    /\ UNCHANGED <<receiptLog, cryptoVars, appVars>>

\* handle_message_delete: delete_one takes effect
DeleteApply(w) ==
    /\ hnd[w].op = "delete" /\ hnd[w].pc = "found"
    /\ store' = Del(store, hnd[w].mid)
    /\ hnd' = [hnd EXCEPT ![w].pc = "written"]
    /\ wire' = <<>>
    /\ UNCHANGED <<rooms, user_room_map, presence_cache, now, sockState, sockRoom, pend, bq, calls, tasks, insertLog, sentLog>>
    /\ ev' = NoEvent
    /\ UNCHANGED <<receiptLog, cryptoVars, appVars>>

\* handle_message_delete: await manager.broadcast(message_deleted); back to the loop
DeleteBroadcast(w) ==
    /\ hnd[w].op = "delete" /\ hnd[w].pc = "written"
    /\ wire' = Deliver(broadcast(Manager,
                    [type |-> "message_deleted", id |-> hnd[w].mid, content |-> NoneContent],
                    sockRoom[w], None), sockState)
    /\ hnd' = [hnd EXCEPT ![w] = Idle]
    /\ UNCHANGED <<rooms, user_room_map, presence_cache, now, sockState, sockRoom, pend, bq,
                   calls, tasks, store, insertLog, sentLog>>
    /\ ev' = NoEvent
    /\ UNCHANGED <<receiptLog, cryptoVars, appVars>>

MsgIds == 1..MaxMsgs

NextMsg ==
    \/ \E w \in Sockets, r \in RoomIds : EndpointConnect(w, r)
    \/ \E w \in Sockets, d \in MessageData : NewMessage(w, d)
    \/ \E i \in 1..Len(tasks) : NewMessagePersist(i)
    \/ \E i \in 1..Len(tasks) : NewMessageEcho(i)
    \/ \E w \in Sockets, mid \in MsgIds, t \in {"bye"} : EditFind(w, mid, t)
    \/ \E w \in Sockets : EditUpdate(w)
    \/ \E w \in Sockets : EditBroadcast(w)
    \/ \E w \in Sockets, mid \in MsgIds : DeleteFind(w, mid)
    \/ \E w \in Sockets : DeleteApply(w)
    \/ \E w \in Sockets : DeleteBroadcast(w)
    \/ \E w \in Sockets : handle_disconnect(w)
    \/ \E w \in Sockets : handle_disconnect_resume(w)
    \/ RunBroadcast

SpecMsg == Init /\ [][NextMsg]_vars

(***************************************************************************)
(* SpecLive: the new-message pipeline alone, with its push notification    *)
(* task and with "message" events that lack the content field.  The event  *)
(* loop runs every task that is ready, and the thread pool, the database   *)
(* and the push gateway answer: each step of a background task that is     *)
(* enabled is eventually taken.                                            *)
(***************************************************************************)
\* a "message" event without the content field
NoContentData == [message_type |-> "text", reply_to |-> FALSE]

\* how a run of send_message_notifications ends: pushed to the gateway, no
\* other member or no token (plain return), the gateway call failed, or
\* another exception; the function catches every Exception
NotifyOutcomes == {"notify_sent", "notify_no_tokens", "notify_gateway_error", "notify_exception"}

\* a notification failure that reaches the sender's receive loop and
\* discards the broadcasts that are still pending
NotifyEffect_propagating(outcome, q, ss) ==
    IF outcome \in {"notify_gateway_error", "notify_exception"}
    THEN [bq |-> <<>>, sockState |-> [w \in Sockets |-> IF ss[w] = "open" THEN "closed" ELSE ss[w]]]
    ELSE [bq |-> q, sockState |-> ss]

\* what a run of the notification task leaves of the pending broadcasts
\* and of the websockets' states: both as they were
NotifyEffect(outcome, q, ss) == [bq |-> q, sockState |-> ss]

\* the task created by asyncio.create_task(send_message_notifications(...))
send_message_notifications(i, outcome) ==
    /\ tasks[i].pc = "done"
    /\ tasks' = [tasks EXCEPT ![i].pc = "notified"]
    /\ bq' = NotifyEffect(outcome, bq, sockState).bq
    /\ sockState' = NotifyEffect(outcome, bq, sockState).sockState
    /\ wire' = <<>>
    /\ ev' = Event(tasks[i].w, outcome, i)
    /\ UNCHANGED <<receiptLog, cryptoVars, appVars>>
    /\ UNCHANGED <<rooms, user_room_map, presence_cache, now, sockRoom, pend, calls,
                   store, insertLog, hnd, sentLog>>

\* the steps of the background task of message i
TaskStep(i) ==
    /\ i \in 1..Len(tasks)
    /\ \/ NewMessagePersist(i)
       \/ NewMessageEcho(i)
       \/ \E o \in NotifyOutcomes : send_message_notifications(i, o)

NextLive ==
    \/ \E w \in Sockets, r \in RoomIds : EndpointConnect(w, r)
    \/ \E w \in Sockets, d \in MessageData \cup {NoContentData} : NewMessage(w, d)
    \/ \E i \in 1..Len(tasks) : NewMessagePersist(i)
    \/ \E i \in 1..Len(tasks) : NewMessageEcho(i)
    \/ \E i \in 1..Len(tasks), o \in NotifyOutcomes : send_message_notifications(i, o)
    \/ \E w \in Sockets : handle_disconnect(w)
    \/ \E w \in Sockets : handle_disconnect_resume(w)
    \/ RunBroadcast

SpecLive ==
    /\ Init /\ [][NextLive]_vars
    /\ \A i \in MsgIds : WF_vars(TaskStep(i))
    /\ WF_vars(RunBroadcast)
    /\ \A w \in Sockets : WF_vars(handle_disconnect_resume(w))

(***************************************************************************)
(* Registry properties                                                     *)
(***************************************************************************)
(* SpecMeta: emoji reactions and read receipts on stored messages.  The    *)
(* run starts once every websocket has connected to MetaRoom and socket    *)
(* MetaAuthor has sent MaxMsgs text messages that were stored and          *)
(* broadcast: the state is built with connect, PrepareMessage and          *)
(* NewDocument, as EndpointConnect, NewMessagePersist and NewMessageEcho   *)
(* build it.                                                               *)
(***************************************************************************)
Emojis == {"thumbsup", "heart"}

\* an array update that appends whether or not the value is present ($push)
AddToSet_push(arr, x) == Append(arr, x)

\* MongoDB $addToSet on an array field: append unless the value is present
AddToSet(arr, x) ==
    IF \E k \in 1..Len(arr) : arr[k] = x THEN arr ELSE Append(arr, x)

\* the array under reactions.<emoji>, empty when the field is absent
ReactionsOf(doc, emoji) ==
    IF emoji \in DOMAIN doc.reactions THEN doc.reactions[emoji] ELSE <<>>

\* {"type": "emoji_reaction", "message_id": mid, "emoji": emoji}:
\* handle_emoji_reaction up to its update_one being awaited.  user["username"]
\* names the user of the connection.
EmojiReaction(w, mid, emoji) ==
    /\ calls < MaxCalls
    /\ sockState[w] = "open"
    /\ hnd[w] = Idle
    /\ calls' = calls + 1
    /\ hnd' = [hnd EXCEPT ![w] = [op |-> "reaction", pc |-> "start", mid |-> mid,
                                  emoji |-> emoji, username |-> SockUser(w)]]
    /\ wire' = <<>>
    /\ ev' = Event(w, "emoji_reaction", mid)
    /\ UNCHANGED <<rooms, user_room_map, presence_cache, now, sockState, sockRoom, pend, bq,
                   tasks, store, insertLog, sentLog, receiptLog, cryptoVars, appVars>>

\* handle_emoji_reaction: update_one({_id}, {$addToSet: {reactions.<emoji>: username}})
\* takes effect; no document matches an unknown _id
ReactionUpdate(w) ==
    /\ hnd[w].op = "reaction" /\ hnd[w].pc = "start"
    /\ LET h == hnd[w]
       IN store' = IF h.mid \in DOMAIN store
                   THEN [store EXCEPT ![h.mid].reactions =
                            Put(@, h.emoji, AddToSet(ReactionsOf(store[h.mid], h.emoji), h.username))]
                   ELSE store
    /\ hnd' = [hnd EXCEPT ![w].pc = "written"]
    /\ wire' = <<>>
    /\ ev' = NoEvent
    /\ UNCHANGED <<rooms, user_room_map, presence_cache, now, sockState, sockRoom, pend, bq,
                   calls, tasks, insertLog, sentLog, receiptLog, cryptoVars, appVars>>

\* handle_emoji_reaction: await manager.broadcast(emoji_reaction), whatever the
\* update did; back to the loop
ReactionBroadcast(w) ==
    /\ hnd[w].op = "reaction" /\ hnd[w].pc = "written"
    /\ wire' = Deliver(broadcast(Manager,
                    [type |-> "emoji_reaction", message_id |-> hnd[w].mid,
                     emoji |-> hnd[w].emoji, username |-> hnd[w].username],
                    sockRoom[w], None), sockState)
    /\ hnd' = [hnd EXCEPT ![w] = Idle]
    /\ ev' = NoEvent
    /\ UNCHANGED <<rooms, user_room_map, presence_cache, now, sockState, sockRoom, pend, bq,
                   calls, tasks, store, insertLog, sentLog, receiptLog, cryptoVars, appVars>>

\* the message_ids lists a client submits: each known id at most once, or nothing
ReceiptLists ==
    {<<>>} \cup { <<a>> : a \in MsgIds }
           \cup { <<a, b>> : <<a, b>> \in { p \in MsgIds \X MsgIds : p[1] # p[2] } }

\* {"type": "read_receipt", "message_ids": ids}: handle_read_receipt up to its
\* bulk_write being awaited; an empty list returns at once
ReadReceipt(w, ids) ==
    /\ calls < MaxCalls
    /\ sockState[w] = "open"
    /\ hnd[w] = Idle
    /\ calls' = calls + 1
    /\ hnd' = IF ids = <<>>
              THEN hnd
              ELSE [hnd EXCEPT ![w] = [op |-> "read", pc |-> "start", ids |-> ids,
                                       next |-> 1, modified_count |-> 0,
                                       user_id |-> SockUser(w)]]
    /\ wire' = <<>>
    /\ ev' = Event(w, "read_receipt", None)
    /\ UNCHANGED <<rooms, user_room_map, presence_cache, now, sockState, sockRoom, pend, bq,
                   tasks, store, insertLog, sentLog, receiptLog, cryptoVars, appVars>>

\* does UpdateOne({_id, room_id}, {$addToSet: {read_by: user_id}}) modify a document?
Modifies(st, mid, room_id, user_id) ==
    /\ mid \in DOMAIN st
    /\ st[mid].room_id = room_id
    /\ AddToSet(st[mid].read_by, user_id) # st[mid].read_by

\* bulk_write: the server applies the next UpdateOne of the list; the
\* operations of one bulk_write are applied one by one, not as a transaction
ReadApply(w) ==
    /\ hnd[w].op = "read" /\ hnd[w].pc = "start"
    /\ LET h == hnd[w]
           mid == h.ids[h.next]
           hit == Modifies(store, mid, sockRoom[w], h.user_id)
       IN /\ store' = IF hit
                      THEN [store EXCEPT ![mid].read_by = AddToSet(@, h.user_id)]
                      ELSE store
          /\ hnd' = [hnd EXCEPT ![w].next = h.next + 1,
                                ![w].modified_count = h.modified_count + (IF hit THEN 1 ELSE 0),
                                ![w].pc = IF h.next = Len(h.ids) THEN "written" ELSE "start"]
    /\ wire' = <<>>
    /\ ev' = NoEvent
    /\ UNCHANGED <<rooms, user_room_map, presence_cache, now, sockState, sockRoom, pend, bq,
                   calls, tasks, insertLog, sentLog, receiptLog, cryptoVars, appVars>>

\* handle_read_receipt after bulk_write: broadcast read_receipt only if
\* result.modified_count > 0; back to the loop
ReadBroadcast(w) ==
    /\ hnd[w].op = "read" /\ hnd[w].pc = "written"
    /\ LET h == hnd[w]
       IN IF h.modified_count > 0
          THEN /\ wire' = Deliver(broadcast(Manager,
                              [type |-> "read_receipt", message_ids |-> h.ids,
                               read_by |-> h.user_id, room_id |-> sockRoom[w]],
                              sockRoom[w], None), sockState)
               /\ receiptLog' = Append(receiptLog, [read_by |-> h.user_id, message_ids |-> h.ids])
          ELSE /\ wire' = <<>>
               /\ UNCHANGED receiptLog
    /\ hnd' = [hnd EXCEPT ![w] = Idle]
    /\ ev' = NoEvent
    /\ UNCHANGED <<rooms, user_room_map, presence_cache, now, sockState, sockRoom, pend, bq,
                   calls, tasks, store, insertLog, sentLog, cryptoVars, appVars>>

MetaRoom == 1
MetaAuthor == NumUsers
MetaData == [content |-> Plain("hello"), message_type |-> "text", reply_to |-> FALSE]

\* ConnectionManager after the websockets 1..n have connected to MetaRoom
RECURSIVE ConnectedManager(_)
ConnectedManager(n) ==
    IF n = 0
    THEN [rooms |-> NoEntries, user_room_map |-> NoEntries, presence_cache |-> NoEntries]
    ELSE connect(ConnectedManager(n - 1), n, SockUser(n), MetaRoom).m

\* what handle_new_message computed for the i-th message of MetaAuthor
MetaPrepared(i) == PrepareMessage(MetaData, MetaRoom, MaxCalls + i)

\* the server with every socket connected to MetaRoom and MaxMsgs text
\* messages of the socket `author` stored and broadcast
InitStored(author) ==
    /\ now = 0
    /\ rooms = ConnectedManager(NumUsers + ExtraDevices).rooms
    /\ user_room_map = ConnectedManager(NumUsers + ExtraDevices).user_room_map
    /\ presence_cache = ConnectedManager(NumUsers + ExtraDevices).presence_cache
    /\ sockState = [w \in Sockets |-> "open"]
    /\ sockRoom = [w \in Sockets |-> MetaRoom]
    /\ pend = [w \in Sockets |-> NoSwitch]
    /\ wire = <<>>
    /\ bq = <<>>
    /\ calls = 0
    /\ tasks = [i \in MsgIds |->
                   [w |-> author, data |-> MetaData, seq |-> MaxCalls + i, pc |-> "done",
                    encrypted_content |-> MetaPrepared(i).encrypted_content,
                    nonce |-> MetaPrepared(i).nonce,
                    is_compressed |-> MetaPrepared(i).is_compressed]]
    /\ store = [i \in MsgIds |-> NewDocument(MetaPrepared(i), SockUser(author),
                                             MetaRoom, MetaData.message_type)]
    /\ insertLog = [i \in MsgIds |-> i]
    /\ hnd = [w \in Sockets |-> Idle]
    /\ sentLog = [i \in MsgIds |-> i]
    /\ ev = NoEvent
    /\ receiptLog = <<>>
    /\ KeysConstructed(1)
    /\ AppIdle

InitMeta == InitStored(MetaAuthor)

NextMeta ==
    \/ \E w \in Sockets, mid \in MsgIds, e \in Emojis : EmojiReaction(w, mid, e)
    \/ \E w \in Sockets : ReactionUpdate(w)
    \/ \E w \in Sockets : ReactionBroadcast(w)
    \/ \E w \in Sockets, ids \in ReceiptLists : ReadReceipt(w, ids)
    \/ \E w \in Sockets : ReadApply(w)
    \/ \E w \in Sockets : ReadBroadcast(w)

SpecMeta == InitMeta /\ [][NextMeta]_vars

(***************************************************************************)
(* SpecEdit: the author of the stored messages is connected from two       *)
(* devices and edits and deletes the messages from both.                   *)
(***************************************************************************)
\* socket 1 and socket NumUsers + 1 belong to user 1
EditAuthor == 1

InitEdit == InitStored(EditAuthor)

NextEdit ==
    \/ \E w \in Sockets, mid \in MsgIds, t \in {"bye"} : EditFind(w, mid, t)
    \/ \E w \in Sockets : EditUpdate(w)
    \/ \E w \in Sockets : EditBroadcast(w)
    \/ \E w \in Sockets, mid \in MsgIds : DeleteFind(w, mid)
    \/ \E w \in Sockets : DeleteApply(w)
    \/ \E w \in Sockets : DeleteBroadcast(w)

SpecEdit == InitEdit /\ [][NextEdit]_vars

(***************************************************************************)
(* SpecCrypto: KeyManagement, MessageEncryption and MessageCompression     *)
(* (message_encryption.py, compression.py) called directly.  A secret is   *)
(* a number; the key PBKDF2 derives is the pair of the secret and the      *)
(* salt; bytes, base64 text and ciphertext are records naming what they    *)
(* encode, so that decoding the wrong thing is not the identity.           *)
(***************************************************************************)
\* self.key_rotation_interval = timedelta(days=7)
key_rotation_interval == 7
\* the values os.urandom(32) can return
Secrets == 1..NumSecrets
\* the values os.urandom(12) can return
Nonces == 1..NumNonces
\* os.getenv("MASTER_KEY"): None when unset, text that is not base64
\* (Malformed), or the base64 text of a secret
Malformed == 0
EnvValues == {None, Malformed} \cup Secrets

serverVars == <<rooms, user_room_map, presence_cache, now, sockState, sockRoom, pend, bq,
                tasks, store, insertLog, hnd, sentLog, receiptLog>>

\* "\ud83d" is a lone surrogate, as json.loads('"\\ud83d"') returns it;
\* "x*10241" is a text of 10241 characters
CryptoTexts == {"", "x*10241", "\\ud83d"}

\* str.encode(): [ok, val]; ~ok is UnicodeEncodeError
Utf8Encode(t) ==
    IF Encodable(t) THEN [ok |-> TRUE, val |-> [utf8 |-> t]] ELSE [ok |-> FALSE, val |-> None]
\* bytes.decode("utf-8")
Utf8Decode(b) == b.utf8
\* base64.b64encode(data).decode("utf-8") and its inverse on such text
B64Encode(data) == [b64 |-> data]
B64Decode(s) == s.b64

\* KeyManagement.__init__(master_key): [raised, master_key, environ]; urandom
\* is what os.urandom(32) returns if it is called.  base64.b64decode(None)
\* raises TypeError, which `except (KeyError, ValueError)` does not catch.
KeyManagement_init(arg, env, urandom) ==
    IF arg # None THEN [raised |-> FALSE, master_key |-> arg, environ |-> env]
    ELSE IF env = None THEN [raised |-> TRUE, master_key |-> None, environ |-> env]
    ELSE IF env = Malformed THEN [raised |-> FALSE, master_key |-> urandom, environ |-> urandom]
    ELSE [raised |-> FALSE, master_key |-> env, environ |-> env]

\* a derivation that depends on when it is made
derive_room_key_stamped(master, room_id) ==
    [master |-> master, salt |-> <<room_id, utcnow>>]

\* KeyManagement._derive_room_key: PBKDF2-HMAC-SHA256 of the master key, salt room_id
derive_room_key(master, room_id) ==
    [master |-> master, salt |-> <<room_id>>]

\* KeyManagement.get_room_key at time t: [key, room_keys, rotated]
get_room_key(rk, master, room_id, t) ==
    IF room_id \in DOMAIN rk /\ t - rk[room_id].creation_time < key_rotation_interval
    THEN [key |-> rk[room_id].key, room_keys |-> rk, rotated |-> FALSE]
    ELSE LET new_key == derive_room_key(master, room_id)
         IN [key |-> new_key,
             room_keys |-> Put(rk, room_id, [key |-> new_key, creation_time |-> t]),
             rotated |-> room_id \in DOMAIN rk]

\* the least recently used entries of an lru_cache go when it is full
Without(seq, room_id) == SelectSeq(seq, LAMBDA x : x.room_id # room_id)
Trim(seq) == IF Len(seq) > LruMaxSize THEN SubSeq(seq, Len(seq) - LruMaxSize + 1, Len(seq)) ELSE seq

\* MessageEncryption._get_encryption_suite under @lru_cache: a cached AESGCM
\* instance is returned without calling get_room_key:
\* [key, suites, room_keys, hit, rotated]
get_encryption_suite(su, rk, master, room_id, t) ==
    IF \E i \in 1..Len(su) : su[i].room_id = room_id
    THEN LET i == CHOOSE j \in 1..Len(su) : su[j].room_id = room_id
         IN [key |-> su[i].key, suites |-> Append(Without(su, room_id), su[i]),
             room_keys |-> rk, hit |-> TRUE, rotated |-> FALSE]
    ELSE LET g == get_room_key(rk, master, room_id, t)
         IN [key |-> g.key,
             suites |-> Trim(Append(su, [room_id |-> room_id, key |-> g.key])),
             room_keys |-> g.room_keys, hit |-> FALSE, rotated |-> g.rotated]

\* AESGCM(key).encrypt(nonce, data, associated_data)
AESGCM_encrypt(key, nonce, data, aad) ==
    [data |-> data, key |-> key, nonce |-> nonce, aad |-> aad]

\* a decryption that does not check the tag
AESGCM_decrypt_unauthenticated(key, nonce, ct, aad) ==
    [ok |-> TRUE, val |-> ct.data]

\* AESGCM(key).decrypt(nonce, data, associated_data): [ok, val]; ~ok is InvalidTag
AESGCM_decrypt(key, nonce, ct, aad) ==
    IF ct.key = key /\ ct.nonce = nonce /\ ct.aad = aad
    THEN [ok |-> TRUE, val |-> ct.data]
    ELSE [ok |-> FALSE, val |-> None]

\* KeyManagement() is constructed, as MessageEncryption.__init__ does (arg = None),
\* or with a master key passed
Construct(arg, urandom) ==
    /\ calls < MaxCalls
    /\ master_key = None
    /\ calls' = calls + 1
    /\ LET k == KeyManagement_init(arg, environ, urandom)
       IN /\ master_key' = k.master_key
          /\ environ' = k.environ
          /\ ev' = [w |-> None, type |-> "construct", mid |-> None, raised |-> k.raised,
                    passed |-> arg # None]
    /\ wire' = <<>>
    /\ UNCHANGED <<room_keys, suites, utcnow, issued, serverVars, appVars>>

\* encrypt_message(content, room_id) where os.urandom(12) returns nonce
EncryptMessage(t, room_id, nonce) ==
    /\ calls < MaxCalls
    /\ master_key # None
    /\ calls' = calls + 1
    /\ LET s == get_encryption_suite(suites, room_keys, master_key, room_id, utcnow)
           pt == Utf8Encode(t)
       IN /\ suites' = s.suites
          /\ room_keys' = s.room_keys
          /\ issued' = IF pt.ok
                       THEN issued \cup
                            {[content |-> B64Encode(AESGCM_encrypt(s.key, nonce, pt.val, <<room_id>>)),
                              nonce |-> B64Encode(nonce), room_id |-> room_id,
                              text |-> t, issued_at |-> utcnow]}
                       ELSE issued
          /\ ev' = [w |-> None, type |-> "encrypt", mid |-> None, raised |-> ~pt.ok,
                    room_id |-> room_id, text |-> t, key |-> s.key, rotated |-> s.rotated]
    /\ wire' = <<>>
    /\ UNCHANGED <<master_key, environ, utcnow, serverVars, appVars>>

\* decrypt_message(c.content, c.nonce, room_id) for a ciphertext issued earlier
DecryptMessage(c, room_id) ==
    /\ calls < MaxCalls
    /\ master_key # None
    /\ calls' = calls + 1
    /\ LET s == get_encryption_suite(suites, room_keys, master_key, room_id, utcnow)
           d == AESGCM_decrypt(s.key, B64Decode(c.nonce), B64Decode(c.content), <<room_id>>)
       IN /\ suites' = s.suites
          /\ room_keys' = s.room_keys
          /\ ev' = [w |-> None, type |-> "decrypt", mid |-> None, raised |-> ~d.ok,
                    room_id |-> room_id, msg |-> c, key |-> s.key, rotated |-> s.rotated,
                    val |-> IF d.ok THEN Utf8Decode(d.val) ELSE ""]
    /\ wire' = <<>>
    /\ UNCHANGED <<master_key, environ, utcnow, issued, serverVars, appVars>>

\* the texts given to compress_message
CompressTexts == Texts \cup {"a*99", "a*100", "\\ud83d*100"}

\* compress_message(t), then decompress_message on its result
CompressRoundTrip(t) ==
    /\ calls < MaxCalls
    /\ calls' = calls + 1
    /\ LET p == compress_message(Plain(t))
       IN ev' = [w |-> None, type |-> "compress", mid |-> None, text |-> t,
                 content |-> p[1], is_compressed |-> p[2],
                 back |-> decompress_message(p[1], p[2])]
    /\ wire' = <<>>
    /\ UNCHANGED <<cryptoVars, serverVars, appVars>>

\* a day of datetime.utcnow() passes
TickDay ==
    /\ utcnow < MaxDays
    /\ utcnow' = utcnow + 1
    /\ wire' = <<>>
    /\ ev' = NoEvent
    /\ UNCHANGED <<master_key, environ, room_keys, suites, issued, calls, serverVars, appVars>>

\* the process starts with MASTER_KEY unset, malformed or holding a secret
InitCrypto ==
    /\ InitServer
    /\ master_key = None
    /\ environ \in EnvValues
    /\ room_keys = NoEntries
    /\ suites = <<>>
    /\ utcnow = 0
    /\ issued = {}
    /\ AppIdle

NextCrypto ==
    \/ \E arg \in Secrets \cup {None}, k \in Secrets : Construct(arg, k)
    \/ \E t \in CryptoTexts, r \in RoomIds, n \in Nonces : EncryptMessage(t, r, n)
    \/ \E c \in issued, r \in RoomIds : DecryptMessage(c, r)
    \/ \E t \in CompressTexts : CompressRoundTrip(t)
    \/ TickDay

SpecCrypto == InitCrypto /\ [][NextCrypto]_vars

(***************************************************************************)
(* SpecBatch: get_messages hands the stored documents of a room to         *)
(* process_message_batch.                                                  *)
(***************************************************************************)
\* the documents handle_new_message stores for the messages of MessageData
NewDocuments ==
    { NewDocument(PrepareMessage(d, r, 1), u, r, d.message_type) :
        d \in { x \in MessageData : PrepareMessage(x, 1, 1).ok }, r \in RoomIds, u \in {1} }

\* a document after handle_message_edit of its author, connected to room r,
\* wrote the text "bye" with nonce n
Edited(doc, r, n) ==
    [doc EXCEPT !.content = encrypt_message(Plain("bye"), r, n), !.nonce = n, !.edited = TRUE]

\* the documents a batch is made of: new ones, edited ones, and ones whose
\* stored nonce is not the nonce of their content
BatchDocuments ==
    NewDocuments
    \cup { Edited(doc, r, 2) : doc \in NewDocuments, r \in RoomIds }
    \cup { [doc EXCEPT !.nonce = 2] : doc \in { x \in NewDocuments : x.nonce = 1 } }

\* the ids of the documents of room r, in the order of the batch
RoomBatch(st, r) ==
    LET ids == { i \in DOMAIN st : st[i].room_id = r }
        RECURSIVE Sorted(_)
        Sorted(S) == IF S = {} THEN <<>>
                     ELSE LET m == CHOOSE x \in S : \A y \in S : x <= y
                          IN <<m>> \o Sorted(S \ {m})
    IN Sorted(ids)

\* the loop of process_message_batch over the records of a batch: the
\* content of each record afterwards
ProcessedMessages(st, ids, room_id) ==
    [k \in 1..Len(ids) |-> process_message_batch(st[ids[k]], room_id)]

\* GET /messages/{room_id}: the documents of the room go through
\* process_message_batch
GetMessagesBatch(r) ==
    /\ calls < MaxCalls
    /\ calls' = calls + 1
    /\ LET ids == RoomBatch(store, r)
       IN ev' = [w |-> None, type |-> "process_message_batch", mid |-> None,
                 room_id |-> r, ids |-> ids, out |-> ProcessedMessages(store, ids, r)]
    /\ wire' = <<>>
    /\ UNCHANGED <<cryptoVars, serverVars, appVars>>

InitBatch ==
    /\ rooms = NoEntries
    /\ user_room_map = NoEntries
    /\ presence_cache = NoEntries
    /\ now = 0
    /\ sockState = [w \in Sockets |-> "new"]
    /\ sockRoom = [w \in Sockets |-> None]
    /\ pend = [w \in Sockets |-> NoSwitch]
    /\ wire = <<>>
    /\ bq = <<>>
    /\ calls = 0
    /\ tasks = <<>>
    /\ store \in [MsgIds -> BatchDocuments]
    /\ insertLog = <<>>
    /\ hnd = [w \in Sockets |-> Idle]
    /\ sentLog = <<>>
    /\ ev = NoEvent
    /\ receiptLog = <<>>
    /\ KeysConstructed(1)
    /\ AppIdle

NextBatch == \E r \in RoomIds : GetMessagesBatch(r)

SpecBatch == InitBatch /\ [][NextBatch]_vars

(***************************************************************************)
(* SpecHistory: a client pages through the stored messages of a room with  *)
(* get_messages, following next_cursor.                                    *)
(***************************************************************************)
StoredIds == 1..NumStored
Stamps == 1..MaxStamp
Limits == 1..MaxLimit

\* a stored text message of room r whose "timestamp" (datetime.utcnow() at
\* its creation, kept by the database in milliseconds) is t
HistoryDocument(r, t) ==
    NewDocument(PrepareMessage(MetaData, r, 1), 1, r, MetaData.message_type) @@ [timestamp |-> t]

\* isoformat() / fromisoformat() of a timestamp
IsoFormat(t) == [iso |-> t]
FromIsoFormat(x) == x.iso

\* an Optional[str] cursor: <<>> is None, <<s>> the string s
NoCursor == <<>>
\* next_cursor for a last timestamp, and the cursor_timestamp of a cursor
EncodeCursor(t) == <<B64Encode(IsoFormat(t))>>
DecodeCursor(c) == FromIsoFormat(B64Decode(c[1]))

\* the documents matched by the query: room_id, and "$lt" the cursor's timestamp
Matching(st, room_id, cursor) ==
    { i \in DOMAIN st : /\ st[i].room_id = room_id
                        /\ (cursor # NoCursor => st[i].timestamp < DecodeCursor(cursor)) }

\* the orders sort("timestamp", -1) can return the ids S in: newest first,
\* documents of one timestamp in any order
SortedNewestFirst(st, S) ==
    { q \in [1..Cardinality(S) -> S] :
        /\ \A a, b \in 1..Cardinality(S) : a # b => q[a] # q[b]
        /\ \A a, b \in 1..Cardinality(S) : a < b => st[q[a]].timestamp >= st[q[b]].timestamp }

Min(a, b) == IF a <= b THEN a ELSE b

\* GET /messages/{room_id}?limit=..&cursor=..: one page and its next_cursor
GetMessages ==
    /\ hist.room_id # None
    /\ ~hist.done
    /\ \E q \in SortedNewestFirst(store, Matching(store, hist.room_id, hist.cursor)) :
         LET messages == SubSeq(q, 1, Min(Len(q), hist.limit + 1))
             has_more == Len(messages) > hist.limit
             page == IF has_more THEN SubSeq(messages, 1, Len(messages) - 1) ELSE messages
             next_cursor == IF has_more /\ Len(page) > 0
                            THEN EncodeCursor(store[page[Len(page)]].timestamp)
                            ELSE NoCursor
         IN /\ hist' = [hist EXCEPT !.cursor = next_cursor,
                                    !.pages = Append(@, page),
                                    !.done = (next_cursor = NoCursor)]
            /\ ev' = [w |-> None, type |-> "get_messages", mid |-> None,
                      room_id |-> hist.room_id,
                      messages |-> ProcessedMessages(store, page, hist.room_id),
                      next_cursor |-> next_cursor]
    /\ wire' = <<>>
    /\ UNCHANGED <<cryptoVars, serverVars, members, room_invites, req, calls>>

\* NumStored messages are stored, their timestamps in the order of their
\* creation; a client starts to page through one room with some limit
InitHistory ==
    /\ rooms = NoEntries
    /\ user_room_map = NoEntries
    /\ presence_cache = NoEntries
    /\ now = 0
    /\ sockState = [w \in Sockets |-> "new"]
    /\ sockRoom = [w \in Sockets |-> None]
    /\ pend = [w \in Sockets |-> NoSwitch]
    /\ wire = <<>>
    /\ bq = <<>>
    /\ calls = 0
    /\ tasks = <<>>
    /\ \E rs \in [StoredIds -> RoomIds], ts \in [StoredIds -> Stamps] :
          /\ \A a, b \in StoredIds : a < b => ts[a] <= ts[b]
          /\ store = [i \in StoredIds |-> HistoryDocument(rs[i], ts[i])]
    /\ insertLog = <<>>
    /\ hnd = [w \in Sockets |-> Idle]
    /\ sentLog = <<>>
    /\ ev = NoEvent
    /\ receiptLog = <<>>
    /\ KeysConstructed(1)
    /\ members = NoEntries
    /\ room_invites = NoEntries
    /\ req = <<>>
    /\ \E r \in RoomIds, l \in Limits :
          hist = [room_id |-> r, limit |-> l, cursor |-> NoCursor, pages |-> <<>>, done |-> FALSE]

NextHistory == GetMessages

SpecHistory == InitHistory /\ [][NextHistory]_vars

(***************************************************************************)
(* SpecInvite: the room and invite routes, each handler taken from one     *)
(* database call to the next.  The read_receipts collection and the        *)
(* responses' room details are left out.                                   *)
(***************************************************************************)
InviteIds == {1}

\* an HTTP request at the point pc of its handler; status is the HTTP
\* status of its response once pc = "done"
Request(op, user_id, invite_id, room_id, pc, status) ==
    [op |-> op, user_id |-> user_id, invite_id |-> invite_id, room_id |-> room_id,
     pc |-> pc, status |-> status, is_member |-> FALSE]

\* check_room_membership: a room with that _id that has user_id among its members
check_room_membership(mb, user_id, room_id) ==
    room_id \in DOMAIN mb /\ \E k \in 1..Len(mb[room_id]) : mb[room_id][k] = user_id

\* {"$push": {"members": ...}} on the room with that _id
PushMember(mb, room_id, user_id) ==
    IF room_id \in DOMAIN mb THEN [mb EXCEPT ![room_id] = Append(@, user_id)] ELSE mb

\* the checks accept_invite and decline_invite make on the invite they found:
\* the HTTP status they raise, or 200 to go on
InviteChecks(iv, invite_id, user_id) ==
    IF invite_id \notin DOMAIN iv THEN 404
    ELSE IF iv[invite_id].user_id # user_id THEN 403
    ELSE IF iv[invite_id].status # "pending" THEN 400
    ELSE 200

Received(r) ==
    /\ req' = Append(req, r)
    /\ wire' = <<>>
    /\ ev' = [w |-> None, type |-> r.op, mid |-> None, user_id |-> r.user_id]

Moved(k, r) ==
    /\ req' = [req EXCEPT ![k] = r]
    /\ wire' = <<>>
    /\ ev' = NoEvent

\* POST /invites/{invite_id}/accept up to get_room_by_id
AcceptInvite(user_id, invite_id) ==
    /\ Len(req) < MaxReqs
    /\ LET st == InviteChecks(room_invites, invite_id, user_id)
           room_id == IF invite_id \in DOMAIN room_invites
                      THEN room_invites[invite_id].room_id ELSE None
           found == IF st = 200 /\ room_id \notin DOMAIN members THEN 404 ELSE st
       IN Received(Request("accept_invite", user_id, invite_id, room_id,
                           IF found = 200 THEN "checked" ELSE "done", found))
    /\ UNCHANGED <<cryptoVars, serverVars, calls, members, room_invites, hist>>

\* accept_invite: update_one {"$set": {"status": "accepted"}}
AcceptUpdate(k) ==
    /\ req[k].op = "accept_invite" /\ req[k].pc = "checked"
    /\ room_invites' = [room_invites EXCEPT ![req[k].invite_id].status = "accepted"]
    /\ Moved(k, [req[k] EXCEPT !.pc = "updated"])
    /\ UNCHANGED <<cryptoVars, serverVars, calls, members, hist>>

\* accept_invite: is_member = await check_room_membership(...)
AcceptMembership(k) ==
    /\ req[k].op = "accept_invite" /\ req[k].pc = "updated"
    /\ Moved(k, [req[k] EXCEPT !.pc = "membership",
                               !.is_member = check_room_membership(members, req[k].user_id,
                                                                   req[k].room_id)])
    /\ UNCHANGED <<cryptoVars, serverVars, calls, members, room_invites, hist>>

\* accept_invite: `if not is_member:` $push, and the response
AcceptPush(k) ==
    /\ req[k].op = "accept_invite" /\ req[k].pc = "membership"
    /\ members' = IF req[k].is_member THEN members
                  ELSE PushMember(members, req[k].room_id, req[k].user_id)
    /\ Moved(k, [req[k] EXCEPT !.pc = "done"])
    /\ UNCHANGED <<cryptoVars, serverVars, calls, room_invites, hist>>

\* POST /invites/{invite_id}/decline up to its checks
DeclineInvite(user_id, invite_id) ==
    /\ Len(req) < MaxReqs
    /\ LET st == InviteChecks(room_invites, invite_id, user_id)
           room_id == IF invite_id \in DOMAIN room_invites
                      THEN room_invites[invite_id].room_id ELSE None
       IN Received(Request("decline_invite", user_id, invite_id, room_id,
                           IF st = 200 THEN "checked" ELSE "done", st))
    /\ UNCHANGED <<cryptoVars, serverVars, calls, members, room_invites, hist>>

\* decline_invite: update_one {"$set": {"status": "declined"}}, and the response
DeclineUpdate(k) ==
    /\ req[k].op = "decline_invite" /\ req[k].pc = "checked"
    /\ room_invites' = [room_invites EXCEPT ![req[k].invite_id].status = "declined"]
    /\ Moved(k, [req[k] EXCEPT !.pc = "done"])
    /\ UNCHANGED <<cryptoVars, serverVars, calls, members, hist>>

\* POST /rooms/join with the code of room_id, up to check_room_membership
JoinRoom(user_id, room_id) ==
    /\ Len(req) < MaxReqs
    /\ IF room_id \notin DOMAIN members
       THEN Received(Request("join_room", user_id, None, room_id, "done", 404))
       ELSE Received([Request("join_room", user_id, None, room_id, "membership", 200)
                        EXCEPT !.is_member = check_room_membership(members, user_id, room_id)])
    /\ UNCHANGED <<cryptoVars, serverVars, calls, members, room_invites, hist>>

\* join_room: `if is_member: pass / else:` $push, and the response
JoinPush(k) ==
    /\ req[k].op = "join_room" /\ req[k].pc = "membership"
    /\ members' = IF req[k].is_member THEN members
                  ELSE PushMember(members, req[k].room_id, req[k].user_id)
    /\ Moved(k, [req[k] EXCEPT !.pc = "done"])
    /\ UNCHANGED <<cryptoVars, serverVars, calls, room_invites, hist>>

\* POST /rooms: insert_one of a room whose members are the creator
CreateRoom(user_id) ==
    /\ Len(req) < MaxReqs
    /\ RoomIds \ DOMAIN members # {}
    /\ LET room_id == CHOOSE r \in RoomIds \ DOMAIN members :
                          \A x \in RoomIds \ DOMAIN members : r <= x
       IN /\ members' = Put(members, room_id, <<user_id>>)
          /\ Received(Request("create_room", user_id, None, room_id, "done", 200))
    /\ UNCHANGED <<cryptoVars, serverVars, calls, room_invites, hist>>

\* user 1 has created room 1 and invited user 2 to it
InitInvite ==
    /\ InitServer
    /\ KeysConstructed(1)
    /\ members = Put(NoEntries, 1, <<1>>)
    /\ room_invites = Put(NoEntries, 1, [user_id |-> 2, room_id |-> 1, status |-> "pending"])
    /\ req = <<>>
    /\ hist = NoPaging

NextInvite ==
    \/ \E u \in Users, i \in InviteIds : AcceptInvite(u, i)
    \/ \E k \in 1..Len(req) : AcceptUpdate(k)
    \/ \E k \in 1..Len(req) : AcceptMembership(k)
    \/ \E k \in 1..Len(req) : AcceptPush(k)
    \/ \E u \in Users, i \in InviteIds : DeclineInvite(u, i)
    \/ \E k \in 1..Len(req) : DeclineUpdate(k)
    \/ \E u \in Users, r \in RoomIds : JoinRoom(u, r)
    \/ \E k \in 1..Len(req) : JoinPush(k)
    \/ \E u \in Users : CreateRoom(u)

SpecInvite == InitInvite /\ [][NextInvite]_vars

(***************************************************************************)
\* the (room, user) connection sets that contain websocket w
SetsOf(w) ==
    { ru \in UNION { {<<r, u>> : u \in DOMAIN rooms[r]} : r \in DOMAIN rooms } :
        w \in rooms[ru[1]][ru[2]].connections }

InRoom(rm, w, r) ==
    r \in DOMAIN rm /\ \E u \in DOMAIN rm[r] : w \in rm[r][u].connections

\* does a broadcast payload report user u offline?
ReportsOffline(msg, u) ==
    /\ msg.type = "presence"
    /\ IF "presence" \in DOMAIN msg
       THEN u \in DOMAIN msg.presence /\ msg.presence[u] = "offline"
       ELSE msg.user_id = u /\ msg.status = "offline"

\* C1: once a websocket's receive loop has ended and its endpoint call has
\* returned, the websocket is in no connection set of the manager.
C1_ClosedSocketUnregistered ==
    \A w \in Sockets : sockState[w] = "closed" => SetsOf(w) = {}

\* C2: whenever no switch_room call is in flight, every registered
\* websocket is a member of exactly one rooms[room][user].connections set.
C2_ExactlyOneSet ==
    (\A w \in Sockets : pend[w] = NoSwitch) =>
        \A w \in Sockets : sockState[w] = "open" => Cardinality(SetsOf(w)) = 1

\* C3: while switch_room is suspended at its await on the old room's
\* presence broadcast, the moving websocket is registered in exactly one of
\* the old and the new room (not in both, not in neither).
C3_SwitchAtomic ==
    \A w \in Sockets : pend[w] # NoSwitch =>
        (InRoom(rooms, w, pend[w].old) # InRoom(rooms, w, pend[w].new))

\* the broadcasts issued by the step just taken
NewWire == 1..Len(wire')

\* the open websockets of users other than u that are registered in room r
Peers(u, r) ==
    { p \in Sockets : SockUser(p) # u /\ sockState[p] = "open" /\ InRoom(rooms, p, r) }

\* C4: a disconnect that removes the last connection of user u from room r,
\* while a peer is connected to r, delivers to that peer exactly one
\* presence broadcast that reports u offline.
C4_OneOfflineBroadcast ==
    [][\A w \in Sockets : \A r \in DOMAIN rooms \ {UNASSIGNED} :
        LET u == SockUser(w) IN
        ( /\ sockState[w] = "open" /\ sockState'[w] = "closed"
          /\ u \in DOMAIN rooms[r] /\ rooms[r][u].connections = {w}
          /\ ~ InRoom(rooms', w, r)
          /\ Peers(u, r) # {} )
        => \A p \in Peers(u, r) :
              Cardinality({ i \in NewWire :
                  p \in wire'[i].ok /\ ReportsOffline(wire'[i].msg, u) }) = 1
      ]_vars

\* C5: when a websocket closes while its user has another open connection
\* in the same room, the user's status in the room is unchanged and no
\* broadcast reports the user offline.
C5_StatusKeptOnClose ==
    [][\A w \in Sockets :
        LET u == SockUser(w)
            r == sockRoom[w] IN
        ( /\ sockState[w] = "open" /\ sockState'[w] # "open"
          /\ r \in DOMAIN rooms /\ u \in DOMAIN rooms[r]
          /\ Cardinality({ x \in rooms[r][u].connections : sockState[x] = "open" }) >= 2 )
        => /\ r \in DOMAIN rooms' /\ u \in DOMAIN rooms'[r]
           /\ rooms'[r][u].status = rooms[r][u].status
           /\ \A i \in NewWire : ~ ReportsOffline(wire'[i].msg, u)
      ]_vars


\* the websockets registered in room r under a user other than `exclude`
Registered(rm, r, exclude) ==
    { w \in Sockets : \E u \in DOMAIN rm[r] \ {exclude} : w \in rm[r][u].connections }

\* the number of send_text calls a broadcast to room r makes on websocket w:
\* one per user entry of the room that holds w
SendCount(rm, r, exclude, w) ==
    Cardinality({ u \in DOMAIN rm[r] \ {exclude} : w \in rm[r][u].connections })

\* C11: a manager call drops no websocket other than the one it is called
\* for from its connection set, whatever calls are interleaved with it, and
\* a connect leaves its websocket registered: two websockets connected for
\* one user and room are both in the set once both calls have returned.
C11_NoLostConnection ==
    [][ /\ \A r \in DOMAIN rooms : \A u \in DOMAIN rooms[r] :
              \A x \in rooms[r][u].connections \ {ev'.w} :
                  /\ r \in DOMAIN rooms' /\ u \in DOMAIN rooms'[r]
                  /\ x \in rooms'[r][u].connections
        /\ ev'.type = "connect" =>
              \E r \in DOMAIN rooms' :
                  /\ SockUser(ev'.w) \in DOMAIN rooms'[r]
                  /\ ev'.w \in rooms'[r][SockUser(ev'.w)].connections
      ]_vars

\* a switch_room that was suspended has just put its websocket into a set
\* that holds another websocket of the same user
C11_Witness ==
    /\ ev.type = "switch_room_resume"
    /\ \E r \in DOMAIN rooms :
          /\ SockUser(ev.w) \in DOMAIN rooms[r]
          /\ ev.w \in rooms[r][SockUser(ev.w)].connections
          /\ Cardinality(rooms[r][SockUser(ev.w)].connections) >= 2

\* C12: a broadcast is addressed to every websocket registered in the room
\* when it is called, except those of exclude_user_id, one send each; the
\* broadcast of a new message excludes nobody.
C12_BroadcastRecipients ==
    \A i \in 1..Len(wire) :
        LET b == wire[i] IN
        /\ b.room \in DOMAIN rooms
        /\ b.to = Registered(rooms, b.room, b.exclude)
        /\ \A w \in b.to : SendCount(rooms, b.room, b.exclude, w) = 1
        /\ b.msg.type = "message" =>
              /\ b.exclude = None
              /\ b.to = Registered(rooms, b.room, None)

\* a broadcast that excludes a user with a connection in the room reaches
\* the other user of the room
C12_Witness ==
    \E i \in 1..Len(wire) :
        /\ wire[i].exclude \in DOMAIN rooms[wire[i].room]
        /\ wire[i].to # {}

\* C13: the send_text failures of a broadcast are collected: every
\* addressed websocket that is open receives the message and broadcast()
\* does not raise.
C13_SendFailuresIsolated ==
    \A i \in 1..Len(wire) :
        /\ wire[i].ok = { w \in wire[i].to : sockState[w] = "open" }
        /\ ~ wire[i].raised

\* a broadcast addressed to a closed websocket and to an open one
C13_Witness ==
    \E i \in 1..Len(wire) : wire[i].to \ wire[i].ok # {} /\ wire[i].ok # {}

BadEventKinds == DroppedKinds \cup {"binary_frame"}

\* C14: after a malformed or unaccepted inbound event the receive loop of
\* its websocket goes on, and every other websocket stays as it was.
C14_LoopSurvivesBadEvent ==
    [][ ev'.type \in BadEventKinds =>
            /\ sockState' = sockState
            /\ sockState'[ev'.w] = "open"
            /\ hnd'[ev'.w] = Idle
            /\ rooms' = rooms
      ]_vars

\* C20: no user entry of the registry has an empty connection set.
C20_NoEmptyConnectionSet ==
    \A r \in DOMAIN rooms : \A u \in DOMAIN rooms[r] : rooms[r][u].connections # {}

\* a disconnect has just removed the last connection of its user, and with
\* it the user's entry
C20_Witness ==
    /\ ev.type = "disconnect" /\ sockState[ev.w] = "closed"
    /\ \A r \in DOMAIN rooms : SockUser(ev.w) \notin DOMAIN rooms[r]
    /\ \E r \in DOMAIN rooms : rooms[r] # NoEntries

(***************************************************************************)
(* Message pipeline properties                                             *)
(***************************************************************************)
\* the position of x in a sequence without repetitions
Pos(seq, x) == CHOOSE k \in 1..Len(seq) : seq[k] = x
Has(seq, x) == \E k \in 1..Len(seq) : seq[k] = x

\* the author of message m: the user of the websocket that sent it
Author(m) == SockUser(tasks[m].w)

\* C6: of two messages sent over one websocket, the one sent first is
\* persisted first and its broadcast is sent first.
C6_SameSenderOrder ==
    \A i, j \in 1..Len(tasks) :
        (i < j /\ tasks[i].w = tasks[j].w) =>
            /\ (Has(insertLog, i) /\ Has(insertLog, j)) => Pos(insertLog, i) < Pos(insertLog, j)
            /\ (Has(sentLog, i) /\ Has(sentLog, j)) => Pos(sentLog, i) < Pos(sentLog, j)

\* C7: two messages of one room are broadcast in the order in which they
\* were inserted into the store.
C7_InsertOrderIsBroadcastOrder ==
    \A a, b \in 1..Len(sentLog) :
        (a < b /\ sockRoom[tasks[sentLog[a]].w] = sockRoom[tasks[sentLog[b]].w]) =>
            Pos(insertLog, sentLog[a]) < Pos(insertLog, sentLog[b])

\* is the content ciphertext or compressed bytes?
Opaque(c) == c.e \/ c.z

\* C8: no new-message broadcast, no edit notice and no stored message as
\* decoded by process_message_batch carries ciphertext or compressed bytes
\* as its content.
C8_NoCiphertextToClient ==
    /\ \A i \in 1..Len(wire) :
          wire[i].msg.type \in {"message", "message_edited"} => ~ Opaque(wire[i].msg.content)
    /\ \A m \in DOMAIN store :
          ~ Opaque(process_message_batch(store[m], store[m].room_id))

\* does the step change or remove the stored document m?
Mutates(m) ==
    m \in DOMAIN store /\ (m \notin DOMAIN store' \/ store'[m] # store[m])

\* the event just received is an edit or delete of an existing message by
\* a user who is not its author
ForeignEvent(e, st) ==
    /\ e.type \in {"edit_message", "delete_message"}
    /\ e.mid \in DOMAIN st
    /\ st[e.mid].user_id # SockUser(e.w)

\* C9: an edit_message or delete_message event from a user who is not the
\* author of the message leaves the store unchanged, broadcasts nothing and
\* sends nothing to the actor (the handler has returned); a stored document
\* is changed or removed, and an edit or delete notice is broadcast, only
\* by the handler of an event of the message's author.
C9_OnlyAuthorEditsOrDeletes ==
    [][ /\ (ev' # ev /\ ForeignEvent(ev', store)) =>
              /\ store' = store
              /\ wire' = <<>> /\ bq' = bq
              /\ hnd' = hnd /\ hnd[ev'.w] = Idle
        /\ \A m \in MsgIds : Mutates(m) =>
              \E w \in Sockets :
                  /\ hnd[w].mid = m /\ hnd[w].pc = "found" /\ hnd'[w].pc = "written"
                  /\ SockUser(w) = store[m].user_id
        /\ \A i \in NewWire :
              wire'[i].msg.type \in {"message_edited", "message_deleted"} =>
                  \E w \in Sockets :
                      /\ hnd[w].mid = wire'[i].msg.id /\ hnd[w].pc = "written"
                      /\ hnd'[w] = Idle
                      /\ SockUser(w) = Author(wire'[i].msg.id)
      ]_vars

\* a non-author's edit or delete event on a stored message was just handled
C9_Witness ==
    /\ ForeignEvent(ev, store)
    /\ hnd[ev.w] = Idle
    /\ wire = <<>>

\* the websockets of room r that are open
OpenIn(rm, ss, r) == { w \in Sockets : ss[w] = "open" /\ InRoom(rm, w, r) }

\* is the text stored compressed: 100 characters or more, and shrunk
StoredCompressed(t) == Length(t) >= MinCompressLen /\ Shrinks(t)

\* C10: a new text message with content c is stored encrypted, and
\* compressed exactly when c has 100 characters or more and compression
\* shrinks it; its broadcast carries c as content and is delivered to every
\* open connection of the room, the sender's included.
C10_EchoEqualsContent ==
    [][ /\ \A m \in MsgIds :
              (m \notin DOMAIN store /\ m \in DOMAIN store' /\ store'[m].message_type = "text") =>
                  LET c == tasks[m].data.content IN
                  /\ store'[m].encrypted
                  /\ Truthy(c) => store'[m].content.e
                  /\ store'[m].compressed = StoredCompressed(c.text)
                  /\ store'[m].content.z = StoredCompressed(c.text)
                  /\ store'[m].content.text = c.text
        /\ \A i \in NewWire :
              (wire'[i].msg.type = "message" /\ wire'[i].msg.message_type = "text") =>
                  /\ wire'[i].msg.content = tasks[wire'[i].msg.id].data.content
                  /\ wire'[i].ok = OpenIn(rooms', sockState', wire'[i].room)
      ]_vars

\* the broadcast of a long text message, stored compressed and encrypted,
\* reaches two websockets of its sender and a websocket of another user
C10_Witness ==
    \E i \in 1..Len(wire) :
        /\ wire[i].msg.type = "message"
        /\ wire[i].msg.content = Plain("a*500")
        /\ wire[i].msg.id \in DOMAIN store
        /\ store[wire[i].msg.id].compressed /\ store[wire[i].msg.id].content.e
        /\ \E w1, w2, w3 \in wire[i].ok :
              /\ w1 # w2 /\ w1 = tasks[wire[i].msg.id].w
              /\ SockUser(w2) = SockUser(w1) /\ SockUser(w3) # SockUser(w1)


\* has the handler of message i finished in this step without inserting?
Fails(i) == i \in 1..Len(tasks) /\ tasks[i].pc = "start" /\ tasks'[i].pc = "failed"

\* C15: a "message" event without a content field is answered with an
\* error event to the websocket that sent it, by the time its handler has
\* returned; nothing is stored and nothing is broadcast for it.
C15_MissingContentAnswered ==
    [][ \A i \in MsgIds :
          (Fails(i) /\ "content" \notin DOMAIN tasks[i].data) =>
              /\ \E k \in NewWire :
                    wire'[k].msg.type = "error" /\ tasks[i].w \in wire'[k].ok
              /\ store' = store /\ bq' = bq
      ]_vars

\* C18: every "message" event with a content field that was received is
\* eventually persisted and its broadcast sent, also when the websocket that
\* sent it disconnects while the task is in flight.
C18_MessageEventuallySent ==
    \A i \in MsgIds :
        (i \in 1..Len(tasks) /\ "content" \in DOMAIN tasks[i].data)
            ~> (Has(insertLog, i) /\ Has(sentLog, i))

\* is the broadcast of message i queued or sent?
BroadcastIssued(i) ==
    \/ Has(sentLog, i)
    \/ \E k \in 1..Len(bq) : bq[k].msg.type = "message" /\ bq[k].msg.id = i

\* C19: the broadcast of a message is queued before its notification task
\* is created, and a run of the notification task, however it ends, leaves
\* the pending broadcasts, the store, the registry and every receive loop
\* as they were and sends nothing.
C19_NotificationIsolated ==
    /\ [](\A i \in 1..Len(tasks) : tasks[i].pc \in {"done", "notified"} => BroadcastIssued(i))
    /\ [][ ev'.type \in NotifyOutcomes =>
              /\ bq' = bq /\ sentLog' = sentLog /\ wire' = <<>>
              /\ sockState' = sockState /\ hnd' = hnd
              /\ store' = store /\ rooms' = rooms
         ]_vars

\* a notification run has just failed while the broadcast of its message
\* was still waiting to be sent
C19_Witness ==
    /\ ev.type \in {"notify_gateway_error", "notify_exception"}
    /\ \E k \in 1..Len(bq) : bq[k].msg.type = "message" /\ bq[k].msg.id = ev.mid
    /\ sockState[ev.w] = "open"

(***************************************************************************)
(* Reactions and read receipts (SpecMeta).                                 *)
(***************************************************************************)
Count(arr, x) == Cardinality({k \in 1..Len(arr) : arr[k] = x})

\* the update_one of w's reaction handler takes effect in this step
ReactionApplied(w) ==
    /\ hnd[w].op = "reaction" /\ hnd[w].pc = "start"
    /\ hnd'[w].op = "reaction" /\ hnd'[w].pc = "written"
    /\ hnd[w].mid \in DOMAIN store

\* C16: however often a user adds the same emoji to the same message, the
\* user is in that emoji's reaction set exactly once: no stored reaction set
\* ever holds a user twice, an add leaves the user in the set once, and an
\* add by a user who is already in the set changes nothing that is stored.
C16_ReactionIdempotent ==
    /\ [](\A mid \in DOMAIN store : \A e \in DOMAIN store[mid].reactions : \A u \in Users :
              Count(store[mid].reactions[e], u) <= 1)
    /\ [][\A w \in Sockets : ReactionApplied(w) =>
              LET h == hnd[w]
              IN /\ Count(ReactionsOf(store'[h.mid], h.emoji), h.username) = 1
                 /\ Count(ReactionsOf(store[h.mid], h.emoji), h.username) >= 1
                        => store' = store]_vars

\* two devices of one user have both added the same emoji to the same message
C16_Witness ==
    \E w1, w2 \in Sockets :
        /\ w1 # w2 /\ SockUser(w1) = SockUser(w2)
        /\ hnd[w1].op = "reaction" /\ hnd[w1].pc = "written"
        /\ hnd[w2].op = "reaction" /\ hnd[w2].pc = "written"
        /\ hnd[w1].mid = hnd[w2].mid /\ hnd[w1].emoji = hnd[w2].emoji
        /\ Count(ReactionsOf(store[hnd[w1].mid], hnd[w1].emoji), SockUser(w1)) = 1

\* C17: the same message id list submitted more than once by the same user,
\* one after the other or concurrently from two devices, is broadcast as a
\* read_receipt at most once.
C17_OneReceiptBroadcast ==
    \A j, k \in 1..Len(receiptLog) :
        j # k => receiptLog[j] # receiptLog[k]

(***************************************************************************)
(* Absent rooms, users and connections; the presence cache (SpecReg).      *)
(***************************************************************************)
RegistryUnchanged ==
    /\ rooms' = rooms
    /\ user_room_map' = user_room_map
    /\ presence_cache' = presence_cache

HasState(rm, u, r) == r \in DOMAIN rm /\ u \in DOMAIN rm[r]

\* C21: update_presence for a user who has no entry in the room changes
\* neither rooms, user_room_map nor the presence cache and sends nothing.
C21_PresenceOfAbsentUserIgnored ==
    [][(ev'.type = "update_presence" /\ ~HasState(rooms, ev'.user_id, ev'.room_id))
          => (RegistryUnchanged /\ wire' = <<>>)]_vars

\* update_presence has just been called for a user whose websockets have
\* all disconnected, in a room that other users still hold
C21_Witness ==
    /\ ev.type = "update_presence"
    /\ ev.room_id \in DOMAIN rooms
    /\ ~HasState(rooms, ev.user_id, ev.room_id)
    /\ \E w \in Sockets : SockUser(w) = ev.user_id /\ sockState[w] = "closed"
    /\ \A w \in Sockets : SockUser(w) = ev.user_id => SetsOf(w) = {}

\* is this broadcast a presence snapshot of its room?
IsSnapshot(b) == b.msg.type = "presence" /\ "presence" \in DOMAIN b.msg

\* C22: every presence snapshot that is broadcast, and every snapshot held
\* in the cache, equals the statuses of the registry for its room; a direct
\* broadcast_presence serves the cached snapshot only while it is younger
\* than presence_cache_ttl and otherwise caches a snapshot stamped now.
C22_PresenceSnapshotCurrent ==
    /\ [](\A i \in 1..Len(wire) : IsSnapshot(wire[i]) =>
              /\ wire[i].room \in DOMAIN rooms
              /\ wire[i].msg.presence = PresenceData(rooms, wire[i].room))
    /\ [](\A r \in DOMAIN presence_cache :
              /\ r \in DOMAIN rooms
              /\ presence_cache[r].message.presence = PresenceData(rooms, r))
    /\ [][(ev'.type = "broadcast_presence" /\ ev'.room_id \in DOMAIN rooms) =>
              LET r == ev'.room_id
              IN /\ r \in DOMAIN presence_cache'
                 /\ IF r \in DOMAIN presence_cache /\ presence_cache'[r] = presence_cache[r]
                    THEN now - presence_cache[r].timestamp < presence_cache_ttl
                    ELSE presence_cache'[r].timestamp = now
         ]_vars

\* a direct broadcast_presence has just served a snapshot cached a second ago
C22_Witness ==
    /\ ev.type = "broadcast_presence"
    /\ ev.room_id \in DOMAIN presence_cache
    /\ presence_cache[ev.room_id].timestamp < now
    /\ \E i \in 1..Len(wire) : IsSnapshot(wire[i]) /\ wire[i].to # {}

\* the room a disconnect call works on
ActualRoom(e) ==
    IF e.room_id # None THEN e.room_id
    ELSE IF e.user_id \in DOMAIN user_room_map THEN user_room_map[e.user_id] ELSE UNASSIGNED

\* is the target of the manager call e absent from the registry?
TargetAbsent(e) ==
    CASE e.type = "disconnect" ->
            ~(/\ HasState(rooms, e.user_id, ActualRoom(e))
              /\ e.w \in rooms[ActualRoom(e)][e.user_id].connections)
      [] e.type = "update_presence" -> ~HasState(rooms, e.user_id, e.room_id)
      [] e.type \in {"broadcast", "broadcast_presence", "get_active_users"} ->
            e.room_id \notin DOMAIN rooms
      [] OTHER -> FALSE

\* C23: disconnect, update_presence, broadcast, broadcast_presence and
\* get_active_users called for an absent room, user or connection leave
\* rooms, user_room_map and the presence cache as they were.
C23_AbsentTargetNoOp ==
    [][TargetAbsent(ev') => RegistryUnchanged]_vars

\* C24: switch_room for a websocket that is registered in the new room
\* changes nothing and sends nothing; for any other websocket the call, once
\* it has run to its end, leaves the websocket registered in the new room.
C24_SwitchNoOpIffThere ==
    [][/\ ev'.type = "switch_room" =>
            IF InRoom(rooms, ev'.w, ev'.room_id)
            THEN RegistryUnchanged /\ wire' = <<>>
            ELSE pend'[ev'.w] # NoSwitch \/ InRoom(rooms', ev'.w, ev'.room_id)
       /\ ev'.type = "switch_room_resume" => InRoom(rooms', ev'.w, pend[ev'.w].new)
      ]_vars

(***************************************************************************)
(* Room keys, encryption and compression (SpecCrypto).                     *)
(***************************************************************************)
\* C25: every encrypt_message and decrypt_message uses the key of a
\* _room_keys entry that is younger than key_rotation_interval.
C25_NoExpiredKeyUsed ==
    [][ev'.type \in {"encrypt", "decrypt"} =>
          /\ ev'.room_id \in DOMAIN room_keys'
          /\ room_keys'[ev'.room_id].key = ev'.key
          /\ utcnow - room_keys'[ev'.room_id].creation_time < key_rotation_interval
      ]_vars

\* C26: a ciphertext decrypted for its own room after the room's key entry
\* was derived again (the entry is stamped later than the ciphertext was
\* issued) decrypts to the text it was made from.
C26_RotationKeepsCiphertext ==
    [][(/\ ev'.type = "decrypt"
        /\ ev'.room_id = ev'.msg.room_id
        /\ room_keys'[ev'.room_id].creation_time > ev'.msg.issued_at)
          => (~ev'.raised /\ ev'.val = ev'.msg.text)]_vars

\* a decrypt_message has just replaced the expired key entry of the room
\* and decrypted a ciphertext issued under the old entry
C26_Witness ==
    /\ ev.type = "decrypt"
    /\ ev.rotated
    /\ ev.room_id = ev.msg.room_id
    /\ room_keys[ev.room_id].creation_time >= ev.msg.issued_at + key_rotation_interval
    /\ ~ev.raised

\* C27: encrypt_message succeeds for every text and room, and every
\* ciphertext it returned decrypts in the same room to that text.
C27_EncryptDecryptRoundTrip ==
    [][/\ ev'.type = "encrypt" =>
            /\ ~ev'.raised
            /\ \E c \in issued' :
                  /\ c.text = ev'.text /\ c.room_id = ev'.room_id
                  /\ LET d == AESGCM_decrypt(ev'.key, B64Decode(c.nonce), B64Decode(c.content),
                                             <<c.room_id>>)
                     IN d.ok /\ Utf8Decode(d.val) = ev'.text
       /\ (ev'.type = "decrypt" /\ ev'.room_id = ev'.msg.room_id) =>
            (~ev'.raised /\ ev'.val = ev'.msg.text)
      ]_vars

\* C28: decrypt_message called with another room than the one the
\* ciphertext was encrypted for raises and returns no text.
C28_OtherRoomCannotDecrypt ==
    [][(ev'.type = "decrypt" /\ ev'.room_id # ev'.msg.room_id)
          => (ev'.raised /\ ev'.val = "")]_vars

\* a ciphertext of a non-empty text was given to decrypt_message with another room
C28_Witness ==
    /\ ev.type = "decrypt"
    /\ ev.room_id # ev.msg.room_id
    /\ ev.msg.text # ""
    /\ ev.raised

\* C29: KeyManagement() constructed without a master key while MASTER_KEY
\* is unset does not raise and holds a generated secret afterwards.
C29_ConstructWithoutMasterKey ==
    [][(ev'.type = "construct" /\ ~ev'.passed /\ environ = None)
          => (~ev'.raised /\ master_key' \in Secrets)]_vars

\* C30: decompress_message gives back the text compress_message was called
\* with; a text shorter than MinCompressLen characters is returned as it is
\* with the flag False; a compressed payload is returned only for a text
\* that the compression makes strictly shorter.
C30_CompressRoundTrip ==
    ev.type = "compress" =>
        /\ ev.back = Plain(ev.text)
        /\ Length(ev.text) < MinCompressLen =>
              (ev.content = Plain(ev.text) /\ ~ev.is_compressed)
        /\ ev.is_compressed = ev.content.z
        /\ ev.is_compressed => Shrinks(ev.text)
        /\ ~ev.is_compressed => ev.content = Plain(ev.text)

\* a text of at least MinCompressLen characters was compressed and restored
C30_Witness ==
    /\ ev.type = "compress"
    /\ ev.is_compressed
    /\ Length(ev.text) >= MinCompressLen
    /\ ev.back = Plain(ev.text)

(***************************************************************************)
(* disconnect without a room id (SpecReg).                                 *)
(***************************************************************************)
\* the <<room, user>> entries of the registry rm whose connections hold w
SetsIn(rm, w) ==
    { ru \in UNION { {<<r, u>> : u \in DOMAIN rm[r]} : r \in DOMAIN rm } :
        w \in rm[ru[1]][ru[2]].connections }

\* C36: disconnect(ws, user) without a room id leaves ws in no connection
\* set, whatever rooms the user's other websockets are in.
C36_DisconnectFindsTheRoom ==
    [][(ev'.type = "disconnect" /\ ev'.room_id = None) => SetsIn(rooms', ev'.w) = {}]_vars


\* an edit's update_one takes effect on a document that is still stored
EditApplied(w) ==
    /\ hnd[w].op = "edit" /\ hnd[w].pc = "found"
    /\ hnd'[w].op = "edit" /\ hnd'[w].pc = "written"
    /\ hnd[w].mid \in DOMAIN store

\* C33: once an edit is written, reading the message back through
\* process_message_batch under its room gives exactly the new content,
\* whatever the original message was (compressed, image, plain).
C33_EditReadBack ==
    [][\A w \in Sockets :
          EditApplied(w) =>
              process_message_batch(store'[hnd[w].mid], store'[hnd[w].mid].room_id)
                  = hnd[w].content]_vars

\* C34: every stored text message whose content is a ciphertext is
\* encrypted under the key of the room_id recorded in its own document.
C34_StoredUnderOwnRoomKey ==
    \A mid \in DOMAIN store :
        (store[mid].message_type = "text" /\ store[mid].content.e)
            => store[mid].content.key = store[mid].room_id

\* C35: no "message" event that carries a content field is dropped: its
\* handler never ends in the failed state.
C35_NoContentMessageDropped ==
    \A i \in 1..Len(tasks) :
        "content" \in DOMAIN tasks[i].data => tasks[i].pc # "failed"


\* handle_message_edit broadcasts message_edited and returns to the loop
AnnouncesEdit(w) ==
    /\ hnd[w].op = "edit" /\ hnd[w].pc = "written"
    /\ hnd'[w] = Idle

\* the message_deleted notice of message mid has gone out: the document is
\* deleted and no delete handler still waits to announce it
DeleteAnnounced(mid) ==
    /\ mid \in MsgIds \ DOMAIN store
    /\ \A w \in Sockets : ~(hnd[w].op = "delete" /\ hnd[w].pc = "written" /\ hnd[w].mid = mid)

\* C32: with an edit and a delete of one message in flight together, no
\* message_edited notice is broadcast for a message whose message_deleted
\* notice has already been broadcast.
C32_NoEditNoticeAfterDeleteNotice ==
    [][\A w \in Sockets : AnnouncesEdit(w) => ~DeleteAnnounced(hnd[w].mid)]_vars


\* decryption of the record is attempted under room_id and raises
DecryptionFails(msg, room_id) ==
    /\ msg.message_type # "image"
    /\ msg.encrypted /\ Truthy(msg.content) /\ msg.nonce # None
    /\ ~decrypt_message(msg.content, msg.nonce, room_id).ok

\* the record is a text record whose flags describe its content and whose
\* ciphertext, if any, verifies under room_id
Decodable(msg, room_id) ==
    /\ msg.message_type # "image"
    /\ ~DecryptionFails(msg, room_id)
    /\ msg.encrypted = (msg.content.e \/ msg.content.null)
    /\ msg.compressed = msg.content.z

\* C31: process_message_batch gives every record of the batch a content: the
\* failure placeholder, and never the ciphertext, for a record whose
\* decryption fails; the plaintext for every decodable record, whatever the
\* other records are; the stored content of an image record.
C31_BatchFailuresIsolated ==
    (ev.type = "process_message_batch") =>
        /\ Len(ev.out) = Len(ev.ids)
        /\ \A k \in 1..Len(ev.ids) :
            LET msg == store[ev.ids[k]]
                out == ev.out[k]
            IN /\ DecryptionFails(msg, ev.room_id) =>
                      (out = Plain("[Processing failed]") /\ out # msg.content)
               /\ (msg.message_type # "image" /\ msg.encrypted /\ msg.nonce # None) => ~out.e
               /\ Decodable(msg, ev.room_id) =>
                      out = (IF msg.content.null THEN NoneContent ELSE Plain(msg.content.text))
               /\ msg.message_type = "image" => out = msg.content

\* a batch of two records, the first failing to decrypt and the second decoded
C31_Witness ==
    /\ ev.type = "process_message_batch"
    /\ Len(ev.ids) = 2
    /\ DecryptionFails(store[ev.ids[1]], ev.room_id)
    /\ Decodable(store[ev.ids[2]], ev.room_id)
    /\ ev.out[2] = Plain("a*500")


\* the ids of all pages received so far, in the order received
RECURSIVE Flatten(_)
Flatten(pages) == IF pages = <<>> THEN <<>> ELSE Head(pages) \o Flatten(Tail(pages))

\* C37: when paging ends (next_cursor null), the pages hold every message
\* of the room exactly once, newest first, at most `limit` per page.
C37_PagingReturnsEveryMessageOnce ==
    hist.done =>
        LET got == Flatten(hist.pages)
        IN /\ { got[k] : k \in 1..Len(got) } = Matching(store, hist.room_id, NoCursor)
           /\ \A a, b \in 1..Len(got) : a # b => got[a] # got[b]
           /\ \A a, b \in 1..Len(got) : a < b => store[got[a]].timestamp >= store[got[b]].timestamp
           /\ \A k \in 1..Len(hist.pages) : Len(hist.pages[k]) <= hist.limit


\* C38: the status of an invite changes only from "pending", so only once.
C38_InviteDecidedOnce ==
    [][\A i \in DOMAIN room_invites :
          room_invites'[i].status # room_invites[i].status
              => room_invites[i].status = "pending"]_vars

\* C39: no user is twice in the members list of a room.
C39_MemberAtMostOnce ==
    \A r \in DOMAIN members : \A u \in Users : Count(members[r], u) <= 1

=============================================================================
